---- MODULE Spec2Model ----
(***************************************************************************)
(* Project-Wannabe: the template evaluator (src/core/dynamic_prompts.py),  *)
(* the prompt builder (src/core/prompt_builder.py), the context fitter and *)
(* its callers (main.py, autocomplete_manager.py), and the spans of the    *)
(* syntax highlighter (src/ui/syntax_highlighter.py).                      *)
(*                                                                         *)
(* A text is a sequence of one-character strings.  Offsets are Python's:   *)
(* the first character is at offset 0, and a span <<s, e>> covers the      *)
(* offsets s .. e-1.                                                       *)
(***************************************************************************)
EXTENDS Integers, Sequences, FiniteSets, TLC

\* ------------------------------------------------------------------ bounds

\* The longest source text of the evaluator runs, in fragments.
MaxPieces == 3

\* ------------------------------------------------------------- characters

NL == "\n"
CR == "\r"

\* str.strip() removes these (the whitespace of the model's alphabet).
Whitespace == {" ", NL, CR, "\t"}

LitBlockOpen == <<"@", "/", "*">>
LitBlockClose == <<"@", "*", "/">>
LitLineOpen == <<"@", "/", "/">>
LitBreak == <<"@", "b", "r", "e", "a", "k">>
LitStartpoint == <<"@", "s", "t", "a", "r", "t", "p", "o", "i", "n", "t">>
LitEndpoint == <<"@", "e", "n", "d", "p", "o", "i", "n", "t">>

\* ---------------------------------------------------------- text helpers

\* s[n:] and s[:n] for 0 <= n.
Drop(s, n) == IF n >= Len(s) THEN <<>> ELSE SubSeq(s, n + 1, Len(s))

Take(s, n) == IF n >= Len(s) THEN s ELSE SubSeq(s, 1, n)

\* s[a:b]
Slice(s, a, b) == IF b <= a THEN <<>> ELSE SubSeq(s, a + 1, b)

\* Whether the literal lit stands in s at offset i.
StartsWithAt(s, i, lit) ==
    /\ i >= 0
    /\ i + Len(lit) <= Len(s)
    /\ \A k \in 1..Len(lit) : s[i + k] = lit[k]

\* str.find(lit, from): the first offset >= from where lit stands, or -1.
Find(s, lit, from) ==
    LET hits == {i \in from..(Len(s) - Len(lit)) : StartsWithAt(s, i, lit)}
    IN  IF hits = {} THEN -1 ELSE CHOOSE i \in hits : \A j \in hits : i <= j

\* str.rfind(lit): the last offset where lit stands, or -1.
RFind(s, lit) ==
    LET hits == {i \in 0..(Len(s) - Len(lit)) : StartsWithAt(s, i, lit)}
    IN  IF hits = {} THEN -1 ELSE CHOOSE i \in hits : \A j \in hits : i >= j

InSpans(pos, spans) ==
    \E k \in 1..Len(spans) : spans[k][1] <= pos /\ pos < spans[k][2]

\* The offsets of s that lie in no span, in order.
OffsetsOutside(s, spans) ==
    SelectSeq([i \in 1..Len(s) |-> i - 1], LAMBDA o : ~InSpans(o, spans))

\* pattern.sub("", s) for the matches `spans`.
DeleteSpans(s, spans) ==
    LET keep == OffsetsOutside(s, spans)
    IN  [k \in 1..Len(keep) |-> s[keep[k] + 1]]

\* str.strip()
RECURSIVE LStrip(_)
LStrip(s) ==
    IF s # <<>> /\ Head(s) \in Whitespace THEN LStrip(Tail(s)) ELSE s

RECURSIVE RStrip(_)
RStrip(s) ==
    IF s # <<>> /\ s[Len(s)] \in Whitespace
    THEN RStrip(SubSeq(s, 1, Len(s) - 1))
    ELSE s

Strip(s) == LStrip(RStrip(s))

\* ------------------------------------------------------- comment patterns

\* BLOCK_COMMENT_PATTERN.finditer(s): "@/*", then the nearest "@*/" (lazy,
\* DOTALL); matches do not overlap.
RECURSIVE BlockCommentMatches(_, _)
BlockCommentMatches(s, from) ==
    LET open == Find(s, LitBlockOpen, from)
        close == Find(s, LitBlockClose, open + 3)
    IN  IF open = -1 \/ close = -1
        THEN <<>>
        ELSE <<(<<open, close + 3>>)>> \o BlockCommentMatches(s, close + 3)

\* LINE_COMMENT_PATTERN.finditer(s): "@//", then everything up to the end of
\* the line; with MULTILINE "$" stands before the newline, which is not part
\* of the match.
RECURSIVE LineCommentMatches(_, _)
LineCommentMatches(s, from) ==
    LET open == Find(s, LitLineOpen, from)
        nl == Find(s, <<NL>>, open + 3)
        end == IF nl = -1 THEN Len(s) ELSE nl
    IN  IF open = -1
        THEN <<>>
        ELSE <<(<<open, end>>)>> \o LineCommentMatches(s, end)

\* BREAK_PATTERN.finditer(s): every "@break" or "@startpoint", in order.
BreakMatches(s) ==
    LET starts == SelectSeq([i \in 1..Len(s) |-> i - 1],
                     LAMBDA o : StartsWithAt(s, o, LitBreak)
                                \/ StartsWithAt(s, o, LitStartpoint))
    IN  [k \in 1..Len(starts) |->
            <<starts[k],
              starts[k] + (IF StartsWithAt(s, starts[k], LitBreak)
                           THEN Len(LitBreak) ELSE Len(LitStartpoint))>>]

\* ENDPOINT_PATTERN.finditer(s)
EndpointMatches(s) ==
    LET starts == SelectSeq([i \in 1..Len(s) |-> i - 1],
                     LAMBDA o : StartsWithAt(s, o, LitEndpoint))
    IN  [k \in 1..Len(starts) |-> <<starts[k], starts[k] + Len(LitEndpoint)>>]

\* ------------------------------------------------ evaluate_dynamic_prompt

\* Line 49: BLOCK_COMMENT_PATTERN.sub("", text)
StripBlockComments(text) == DeleteSpans(text, BlockCommentMatches(text, 0))

\* Line 50: LINE_COMMENT_PATTERN.sub("", text), on the result of line 49.
StripLineComments(text) == DeleteSpans(text, LineCommentMatches(text, 0))

StripComments(text) == StripLineComments(StripBlockComments(text))

\* RangeStart without the test of line 55 for "no marker found": rfind's -1
\* is used as an offset.
RangeStart_Unguarded(text) ==
    LET last_break == RFind(text, LitBreak)
        last_startpoint == RFind(text, LitStartpoint)
    IN  IF last_break >= last_startpoint
        THEN last_break + Len(LitBreak)
        ELSE last_startpoint + Len(LitStartpoint)

\* Lines 53-59: where the text is cut on the left; 0 when there is no
\* "@break" and no "@startpoint".
RangeStart(text) ==
    LET last_break == RFind(text, LitBreak)
        last_startpoint == RFind(text, LitStartpoint)
    IN  IF last_break # -1 \/ last_startpoint # -1
        THEN IF last_break >= last_startpoint
             THEN last_break + Len(LitBreak)
             ELSE last_startpoint + Len(LitStartpoint)
        ELSE 0

\* Lines 61-63: the text up to the first "@endpoint".
CutAtEndpoint(text) ==
    LET endpoint_pos == Find(text, LitEndpoint, 0)
    IN  IF endpoint_pos # -1 THEN Take(text, endpoint_pos) ELSE text

\* Lines 48-63: the text that alternative selection works on.
ActiveText(text) ==
    LET stripped == StripComments(text)
    IN  CutAtEndpoint(Drop(stripped, RangeStart(stripped)))

\* OPTION_PARSE_PATTERN.findall(s): at each offset a double-quoted run, else
\* a single-quoted run, else the longest run without "|".
RECURSIVE OptionMatches(_, _)
OptionMatches(s, from) ==
    IF from >= Len(s) THEN <<>>
    ELSE LET c == s[from + 1]
             dq == Find(s, <<"\"">>, from + 1)
             sq == Find(s, <<"'">>, from + 1)
             bar == Find(s, <<"|">>, from)
             end == IF c = "\"" /\ dq # -1 THEN dq + 1
                    ELSE IF c = "'" /\ sq # -1 THEN sq + 1
                    ELSE IF bar = -1 THEN Len(s) ELSE bar
         IN  IF c = "|"
             THEN OptionMatches(s, from + 1)
             ELSE <<Slice(s, from, end)>> \o OptionMatches(s, end)

\* _parse_options: the stripped matches that are not empty.
ParseOptions(options_str) ==
    LET matches == OptionMatches(options_str, 0)
        stripped == [k \in 1..Len(matches) |-> Strip(matches[k])]
    IN  SelectSeq(stripped, LAMBDA o : o # <<>>)

\* Lines 79-84: the chosen option without its outer quotes.
StripOuterQuotes(chosen_option) ==
    IF /\ Len(chosen_option) >= 2
       /\ \/ Head(chosen_option) = "\"" /\ chosen_option[Len(chosen_option)] = "\""
          \/ Head(chosen_option) = "'" /\ chosen_option[Len(chosen_option)] = "'"
    THEN SubSeq(chosen_option, 2, Len(chosen_option) - 1)
    ELSE chosen_option

\* replace_match: what one "{...}" match may be replaced by (random.choice
\* picks any option).
Replacements(match) ==
    LET options == ParseOptions(SubSeq(match, 2, Len(match) - 1))
    IN  IF options = <<>>
        THEN {match}
        ELSE {StripOuterQuotes(options[k]) : k \in 1..Len(options)}

\* DYNAMIC_PROMPT_PATTERN.sub(replace_match, s) from offset `from` on: the
\* leftmost "{" that is followed by at least one character other than "}"
\* and then by "}" is a match.
RECURSIVE SubstituteGroups(_, _)
SubstituteGroups(s, from) ==
    LET open == Find(s, <<"{">>, from)
        close == Find(s, <<"}">>, open + 1)
    IN  IF open = -1 \/ close = -1
        THEN {Drop(s, from)}
        ELSE IF close = open + 1
        THEN {Slice(s, from, open + 1) \o rest :
                 rest \in SubstituteGroups(s, open + 1)}
        ELSE {Slice(s, from, open) \o r \o rest :
                 r \in Replacements(Slice(s, open, close + 1)),
                 rest \in SubstituteGroups(s, close + 1)}

\* evaluate_dynamic_prompt(text) for a string: every result it may return.
evaluate_dynamic_prompt(text) ==
    LET active == ActiveText(text)
    IN  IF \A k \in 1..Len(active) : active[k] # "{"
        THEN {active}
        ELSE SubstituteGroups(active, 0)

\* -------------------------------------------------------- is_position_valid

\* Lines 100-111: the comment spans of the source; a line comment's span is
\* extended over the line terminator that follows the match.
CommentSpans(text) ==
    LET line == LineCommentMatches(text, 0)
        extended(m) ==
            LET end == m[2]
            IN  IF end < Len(text) /\ text[end + 1] \in {CR, NL}
                THEN IF /\ text[end + 1] = CR
                        /\ end + 1 < Len(text)
                        /\ text[end + 2] = NL
                     THEN <<m[1], end + 2>>
                     ELSE <<m[1], end + 1>>
                ELSE m
    IN  BlockCommentMatches(text, 0)
        \o [k \in 1..Len(line) |-> extended(line[k])]

\* Lines 122-128: the end of the last start marker outside comments, else 0.
StartIndex(text) ==
    LET spans == CommentSpans(text)
        live == SelectSeq(BreakMatches(text), LAMBDA m : ~InSpans(m[1], spans))
    IN  IF live = <<>> THEN 0 ELSE live[Len(live)][2]

\* Lines 132-139: the start of the first "@endpoint" outside comments that
\* does not start before start_index; -1 stands for None.
EndpointStart(text) ==
    LET spans == CommentSpans(text)
        start_index == StartIndex(text)
        live == SelectSeq(EndpointMatches(text),
                    LAMBDA m : ~InSpans(m[1], spans) /\ m[1] >= start_index)
    IN  IF live = <<>> THEN -1 ELSE live[1][1]

is_position_valid(text, cursor_pos) ==
    IF cursor_pos < 0 \/ cursor_pos > Len(text) THEN FALSE
    ELSE IF InSpans(cursor_pos, CommentSpans(text)) THEN FALSE
    ELSE IF cursor_pos < StartIndex(text) THEN FALSE
    ELSE IF EndpointStart(text) # -1 /\ cursor_pos >= EndpointStart(text) THEN FALSE
    ELSE TRUE

\* ----------------------------------------------------- syntax_highlighter.py

\* (a, b) < (c, d) as Python orders tuples.
SpanBefore(m, n) == m[1] < n[1] \/ (m[1] = n[1] /\ m[2] < n[2])

\* list.sort() on spans.
RECURSIVE SortSpans(_)
SortSpans(spans) ==
    IF spans = <<>> THEN <<>>
    ELSE LET least == CHOOSE k \in 1..Len(spans) :
                          \A j \in 1..Len(spans) : ~SpanBefore(spans[j], spans[k])
         IN  <<spans[least]>>
                \o SortSpans(SubSeq(spans, 1, least - 1)
                                \o SubSeq(spans, least + 1, Len(spans)))

\* Lines 33-39: a sorted span that starts at or before the end of the one
\* before it is merged into it.
RECURSIVE MergeSpans(_, _)
MergeSpans(merged, rest) ==
    IF rest = <<>> THEN merged
    ELSE LET prev == merged[Len(merged)]
             next == Head(rest)
         IN  IF next[1] <= prev[2]
             THEN MergeSpans([merged EXCEPT ![Len(merged)] =
                                 <<prev[1], IF prev[2] > next[2] THEN prev[2] ELSE next[2]>>],
                             Tail(rest))
             ELSE MergeSpans(merged \o <<next>>, Tail(rest))

\* _normalize_spans(spans): empty spans dropped, the rest sorted and merged.
normalize_spans(spans) ==
    LET normalized == SortSpans(SelectSeq(spans, LAMBDA m : m[2] > m[1]))
    IN  IF normalized = <<>> THEN <<>>
        ELSE MergeSpans(<<normalized[1]>>, Tail(normalized))

\* Lines 205-210: in_comment(pos) looks only at the last span that starts at
\* or before pos (bisect_right on the sorted spans).
in_comment(comment_spans, pos) ==
    LET idx == Cardinality({k \in 1..Len(comment_spans) : comment_spans[k][1] <= pos}) - 1
    IN  IF idx < 0 THEN FALSE
        ELSE comment_spans[idx + 1][1] <= pos /\ pos < comment_spans[idx + 1][2]

\* Lines 222-228 with the first "@endpoint" outside comments taken wherever
\* it stands.
HighlighterEndpointStart_Anywhere(text, comment_spans, start_index) ==
    LET live == SelectSeq(EndpointMatches(text),
                    LAMBDA m : ~in_comment(comment_spans, m[1]))
    IN  IF live = <<>> THEN -1 ELSE live[1][1]

\* Lines 222-228: endpoint_start, the start of the first "@endpoint" outside
\* comments at or after start_index; -1 stands for None.
HighlighterEndpointStart(text, comment_spans, start_index) ==
    LET live == SelectSeq(EndpointMatches(text),
                    LAMBDA m : ~in_comment(comment_spans, m[1]) /\ m[1] >= start_index)
    IN  IF live = <<>> THEN -1 ELSE live[1][1]

\* Lines 186-239: the spans _ensure_cache computes for a document.
ensure_cache(text) ==
    LET comment_spans == normalize_spans(CommentSpans(text))
        breaks == SelectSeq(BreakMatches(text),
                      LAMBDA m : ~in_comment(comment_spans, m[1]))
        endpoints == SelectSeq(EndpointMatches(text),
                         LAMBDA m : ~in_comment(comment_spans, m[1]))
        start_index == IF breaks = <<>> THEN 0 ELSE breaks[Len(breaks)][2]
        endpoint_start == HighlighterEndpointStart(text, comment_spans, start_index)
        end_index == IF endpoint_start # -1 THEN endpoint_start ELSE Len(text)
    IN  [pc |-> "cached",
         comment_spans |-> comment_spans,
         control_spans |-> normalize_spans(breaks \o endpoints),
         disabled_spans |->
            normalize_spans((IF start_index > 0 THEN <<(<<0, start_index>>)>> ELSE <<>>)
                \o (IF end_index < Len(text) THEN <<(<<end_index, Len(text)>>)>>
                    ELSE <<>>))]

\* ------------------------------------------------------- prompt_builder.py

\* A fixed literal of n characters that the model never looks into: each of
\* its characters is written c.
Lit(c, n) == [k \in 1..n |-> c]

\* The full-width period and the closing bracket of is_sentence_complete.
Kuten == "KUTEN"
ClosingBracket == "KAGI"

\* A key that a dict does not hold (dialogue_level), a rating not given.
None == <<"<None>">>

INSTRUCTION_TEMPLATES(task_type) ==
    CASE task_type = "GEN_INFO" -> Lit("GEN_INFO", 24)
      [] task_type = "GEN_ZERO" -> Lit("GEN_ZERO", 15)
      [] task_type = "CONT_INFO" -> Lit("CONT_INFO", 41)
      [] task_type = "CONT_ZERO" -> Lit("CONT_ZERO", 36)
      [] task_type = "IDEA_INFO" -> Lit("IDEA_INFO", 61)
      [] task_type = "IDEA_ZERO" -> Lit("IDEA_ZERO", 50)

\* INPUT_METADATA_ORDER_JA, as the keys KEY_MAP_FROM_JA gives.
MetadataOrder ==
    <<"title", "keywords", "genres", "synopsis", "setting", "plot", "dialogue_level">>

\* METADATA_MAP: the Japanese name of a key.
METADATA_MAP(key) ==
    CASE key = "title" -> Lit("ja_title", 4)
      [] key = "keywords" -> Lit("ja_keywords", 5)
      [] key = "genres" -> Lit("ja_genres", 4)
      [] key = "synopsis" -> Lit("ja_synopsis", 4)
      [] key = "setting" -> Lit("ja_setting", 2)
      [] key = "plot" -> Lit("ja_plot", 4)
      [] key = "dialogue_level" -> Lit("ja_dialogue_level", 4)

\* sep.join(parts)
RECURSIVE Join(_, _)
Join(parts, sep) ==
    IF parts = <<>> THEN <<>>
    ELSE IF Len(parts) = 1 THEN parts[1]
    ELSE parts[1] \o sep \o Join(Tail(parts), sep)

\* str.splitlines(): the lines without their terminators; no empty last line
\* after a final terminator.
RECURSIVE SplitLines(_)
SplitLines(s) ==
    IF s = <<>> THEN <<>>
    ELSE LET breaks == {k \in 1..Len(s) : s[k] \in {NL, CR}}
         IN  IF breaks = {} THEN <<s>>
             ELSE LET k == CHOOSE b \in breaks : \A c \in breaks : b <= c
                      skip == IF s[k] = CR /\ k < Len(s) /\ s[k + 1] = NL
                              THEN 2 ELSE 1
                  IN  <<SubSeq(s, 1, k - 1)>> \o SplitLines(Drop(s, k - 1 + skip))

\* str.strip('"')
RECURSIVE StripQuoteChars(_)
StripQuoteChars(s) ==
    IF s # <<>> /\ Head(s) = "\"" THEN StripQuoteChars(Tail(s))
    ELSE IF s # <<>> /\ s[Len(s)] = "\"" THEN StripQuoteChars(SubSeq(s, 1, Len(s) - 1))
    ELSE s

\* str.rstrip(" \t")
RECURSIVE RStripBlanks(_)
RStripBlanks(s) ==
    IF s # <<>> /\ s[Len(s)] \in {" ", "\t"}
    THEN RStripBlanks(SubSeq(s, 1, Len(s) - 1))
    ELSE s

\* The indices (from 0) of the lines with content.
ContentLineIndices(lines) ==
    SelectSeq([i \in 1..Len(lines) |-> i - 1], LAMBDA i : Strip(lines[i + 1]) # <<>>)

\* Lines 65-72: the tags of a list field, each evaluated, without outer
\* double quotes, the empty ones dropped; every outcome of the evaluation.
RECURSIVE EvaluatedTags(_)
EvaluatedTags(tags) ==
    IF tags = <<>> THEN {<<>>}
    ELSE {(IF StripQuoteChars(e) = <<>> THEN <<>> ELSE <<StripQuoteChars(e)>>) \o rest :
             e \in evaluate_dynamic_prompt(Head(tags)),
             rest \in EvaluatedTags(Tail(tags))}

\* Lines 52-80: what one key adds to `output`: nothing (<<>>) or one entry.
MetadataEntries(metadata, key, mode) ==
    LET value == metadata[key]
        header == <<"#", " ">> \o METADATA_MAP(key) \o <<":", NL>>
    IN  IF mode = "idea" /\ key = "dialogue_level" THEN {<<>>}
        ELSE IF key \in {"keywords", "genres"}
        THEN IF value = <<>> THEN {<<>>}
             ELSE {IF tags = <<>> THEN <<>> ELSE <<header \o Join(tags, <<NL>>)>> :
                      tags \in EvaluatedTags(value)}
        ELSE IF value = None THEN {<<>>}
        ELSE IF Strip(value) # <<>> THEN {<<header \o Strip(value)>>}
        ELSE {<<>>}

RECURSIVE MetadataOutputs(_, _, _)
MetadataOutputs(metadata, keys, mode) ==
    IF keys = <<>> THEN {<<>>}
    ELSE {e \o rest : e \in MetadataEntries(metadata, Head(keys), mode),
                      rest \in MetadataOutputs(metadata, Tail(keys), mode)}

\* format_metadata(metadata, mode): every string it may return.
format_metadata(metadata, mode) ==
    {Join(output, <<NL, NL>>) : output \in MetadataOutputs(metadata, MetadataOrder, mode)}

\* split_main_text with the tail ending at the last line with content
\* instead of the one before it.
split_main_text_TailToLastLine(text) ==
    LET lines == SplitLines(text)
        content_line_indices == ContentLineIndices(lines)
    IN  IF text = <<>> \/ Len(content_line_indices) < 4 THEN <<(<<>>), (<<>>)>>
        ELSE LET tail_end_index ==
                     content_line_indices[Len(content_line_indices)]
                 tail_start_index ==
                     IF tail_end_index - 2 < 0 THEN 0 ELSE tail_end_index - 2
             IN  << Join(Slice(lines, 0, tail_start_index), <<NL>>),
                    Join(Slice(lines, tail_start_index, tail_end_index + 1), <<NL>>) >>

\* split_main_text(text): <<main_part_text, tail_text>>
split_main_text(text) ==
    LET lines == SplitLines(text)
        content_line_indices == ContentLineIndices(lines)
    IN  IF text = <<>> \/ Len(content_line_indices) < 4 THEN <<(<<>>), (<<>>)>>
        ELSE LET tail_end_index ==
                     content_line_indices[Len(content_line_indices) - 1]
                 tail_start_index ==
                     IF tail_end_index - 2 < 0 THEN 0 ELSE tail_end_index - 2
             IN  << Join(Slice(lines, 0, tail_start_index), <<NL>>),
                    Join(Slice(lines, tail_start_index, tail_end_index + 1), <<NL>>) >>

\* is_sentence_complete without the test of line 152: a line terminator at
\* the end does not complete a sentence.
is_sentence_complete_NewlineIgnored(text) ==
    LET stripped_text == RStripBlanks(text)
    IN  IF text = <<>> THEN FALSE
        ELSE stripped_text # <<>>
                /\ stripped_text[Len(stripped_text)] \in {Kuten, ClosingBracket}

\* Lines 131-155.
is_sentence_complete(text) ==
    LET stripped_text == RStripBlanks(text)
    IN  IF text = <<>> THEN FALSE
        ELSE IF stripped_text # <<>>
                /\ stripped_text[Len(stripped_text)] \in {Kuten, ClosingBracket}
        THEN TRUE
        ELSE text[Len(text)] = NL /\ Strip(text) # <<>>

\* The metadata that counts for the task type (lines 173-192).
\* HasAnyMetadataForIdea with has_dialogue_level counted.
HasAnyMetadataForIdea_WithDialogue(metadata) ==
    \/ Strip(metadata.title) # <<>>
    \/ metadata.keywords # <<>>
    \/ metadata.genres # <<>>
    \/ Strip(metadata.synopsis) # <<>>
    \/ Strip(metadata.setting) # <<>>
    \/ Strip(metadata.plot) # <<>>
    \/ metadata.dialogue_level # None

HasAnyMetadataForIdea(metadata) ==
    \/ Strip(metadata.title) # <<>>
    \/ metadata.keywords # <<>>
    \/ metadata.genres # <<>>
    \/ Strip(metadata.synopsis) # <<>>
    \/ Strip(metadata.setting) # <<>>
    \/ Strip(metadata.plot) # <<>>

\* HasAnyMetadataForGenCont without has_dialogue_level.
HasAnyMetadataForGenCont_NoDialogue(metadata) ==
    HasAnyMetadataForIdea(metadata)

HasAnyMetadataForGenCont(metadata) ==
    HasAnyMetadataForIdea(metadata) \/ metadata.dialogue_level # None

\* determine_task_and_instruction with every mode but "idea" taken for
\* "generate".
determine_task_AnyModeGenerates(current_mode, main_text, metadata) ==
    IF current_mode = "idea"
    THEN IF HasAnyMetadataForIdea(metadata) THEN "IDEA_INFO" ELSE "IDEA_ZERO"
    ELSE IF Len(ContentLineIndices(SplitLines(main_text))) < 4
    THEN IF HasAnyMetadataForGenCont(metadata) THEN "GEN_INFO" ELSE "GEN_ZERO"
    ELSE IF HasAnyMetadataForGenCont(metadata) THEN "CONT_INFO" ELSE "CONT_ZERO"

\* determine_task_and_instruction: the task type (the instruction text is
\* INSTRUCTION_TEMPLATES of it).
determine_task(current_mode, main_text, metadata) ==
    IF current_mode = "generate"
    THEN IF Strip(main_text) = <<>>
         THEN IF HasAnyMetadataForGenCont(metadata) THEN "GEN_INFO" ELSE "GEN_ZERO"
         ELSE IF Len(ContentLineIndices(SplitLines(main_text))) < 4
         THEN IF HasAnyMetadataForGenCont(metadata) THEN "GEN_INFO" ELSE "GEN_ZERO"
         ELSE IF HasAnyMetadataForGenCont(metadata) THEN "CONT_INFO" ELSE "CONT_ZERO"
    ELSE IF current_mode = "idea"
    THEN IF HasAnyMetadataForIdea(metadata) THEN "IDEA_INFO" ELSE "IDEA_ZERO"
    ELSE "GEN_ZERO"

\* main_part[-max_len:], taken when len(main_part) > max_len.
LastChars(s, max_len) ==
    IF max_len = 0 THEN s
    ELSE IF max_len > 0 THEN Drop(s, Len(s) - max_len)
    ELSE Drop(s, -max_len)

\* Lines 298-343: main_part, tail and prompt_suffix of a CONT task.
ContParts(main_text, max_len) ==
    LET lines == SplitLines(main_text)
        content == ContentLineIndices(lines)
        parts ==
            IF is_sentence_complete(main_text)
            THEN IF content # <<>>
                 THEN LET tail_end_index == content[Len(content)]
                          tail_start_index ==
                              IF tail_end_index - 2 < 0 THEN 0 ELSE tail_end_index - 2
                      IN  [main_part |-> Join(Slice(lines, 0, tail_start_index), <<NL>>),
                           tail |-> Join(Slice(lines, tail_start_index,
                                               tail_end_index + 1), <<NL>>),
                           prompt_suffix |-> <<>>]
                 ELSE [main_part |-> <<>>, tail |-> <<>>, prompt_suffix |-> <<>>]
            ELSE [main_part |-> split_main_text(main_text)[1],
                  tail |-> split_main_text(main_text)[2],
                  prompt_suffix |->
                      IF content = <<>> THEN <<>>
                      ELSE Strip(lines[content[Len(content)] + 1])]
    IN  [parts EXCEPT !.main_part =
            IF Len(@) > max_len THEN LastChars(@, max_len) ELSE @]

\* Three backticks.
Fence == Lit("backtick", 3)

MainPartBlock(main_part) ==
    Lit("ja_main_text_header", 4) \o <<NL>> \o Fence \o <<NL>> \o main_part
        \o <<NL>> \o Fence

ReferenceBlock(metadata_input_string) ==
    Lit("ja_reference_header", 6) \o <<NL>> \o Fence \o <<NL>>
        \o metadata_input_string \o <<NL>> \o Fence

AuthorsNoteBlock(authors_note) ==
    Lit("ja_authors_note_header", 10) \o <<NL>> \o Fence \o <<NL>>
        \o Strip(authors_note) \o <<NL>> \o Fence

\* ContInternalInput with the absent blocks joined in as empty strings.
ContInternalInput_AbsentJoined(parts, metadata_input_string, authors_note, cont_prompt_order) ==
    LET main_part_block ==
            IF parts.main_part # <<>> THEN MainPartBlock(parts.main_part) ELSE <<>>
        reference_block ==
            IF metadata_input_string # <<>>
            THEN ReferenceBlock(metadata_input_string) ELSE <<>>
        authors_note_block ==
            IF Strip(authors_note) # <<>> THEN AuthorsNoteBlock(authors_note) ELSE <<>>
    IN  Join((IF cont_prompt_order = "reference_first"
              THEN <<reference_block, main_part_block>>
              ELSE <<main_part_block, reference_block>>)
             \o <<authors_note_block, parts.tail>>, <<NL>>)

\* Lines 350-376: internal_input of a CONT task.
ContInternalInput(parts, metadata_input_string, authors_note, cont_prompt_order) ==
    LET main_part_block ==
            IF parts.main_part # <<>> THEN <<MainPartBlock(parts.main_part)>> ELSE <<>>
        reference_block ==
            IF metadata_input_string # <<>>
            THEN <<ReferenceBlock(metadata_input_string)>> ELSE <<>>
        authors_note_block ==
            IF Strip(authors_note) # <<>> THEN <<AuthorsNoteBlock(authors_note)>> ELSE <<>>
        tail == IF parts.tail # <<>> THEN <<parts.tail>> ELSE <<>>
        input_parts ==
            (IF cont_prompt_order = "reference_first"
             THEN reference_block \o main_part_block
             ELSE main_part_block \o reference_block)
            \o authors_note_block \o tail
    IN  Join(input_parts, <<NL>>)

\* FinalInstruction without the test of rating_override (line 261).
FinalInstruction_DefaultRatingOnly(task_type, rating_override, settings) ==
    INSTRUCTION_TEMPLATES(task_type) \o <<" ">> \o Lit("ja_rating", 6)
        \o <<":", " ">> \o settings.default_rating

\* Lines 261-266 and 380.
FinalInstruction(task_type, rating_override, settings) ==
    LET rating_to_use ==
            IF rating_override # None /\ rating_override # <<>>
            THEN rating_override ELSE settings.default_rating
    IN  INSTRUCTION_TEMPLATES(task_type) \o <<" ">> \o Lit("ja_rating", 6)
            \o <<":", " ">> \o rating_to_use

\* AssemblePrompt with the body of a GEN task put into the input section.
AssemblePrompt_BodyInInput(current_mode, main_text, metadata, metadata_input_string, authors_note, rating_override, cont_prompt_order, settings) ==
    LET task_type == determine_task(current_mode, main_text, metadata)
        cont == ContParts(main_text, settings.max_context_length)
        internal_input ==
            IF task_type \in {"CONT_INFO", "CONT_ZERO"}
            THEN ContInternalInput(cont, metadata_input_string, authors_note,
                                   cont_prompt_order)
            ELSE IF task_type \in {"GEN_INFO", "GEN_ZERO"}
            THEN metadata_input_string \o main_text
            ELSE metadata_input_string
        prompt_suffix ==
            IF task_type \in {"CONT_INFO", "CONT_ZERO"} THEN cont.prompt_suffix
            ELSE <<>>
        final_instruction == FinalInstruction(task_type, rating_override, settings)
    IN  IF internal_input # <<>>
        THEN <<"[", "I", "N", "S", "T", "]">> \o final_instruction \o <<NL>>
                 \o internal_input \o <<"[", "/", "I", "N", "S", "T", "]">>
                 \o prompt_suffix
        ELSE <<"[", "I", "N", "S", "T", "]">> \o final_instruction
                 \o <<"[", "/", "I", "N", "S", "T", "]">> \o prompt_suffix

\* Lines 268-389 for one outcome of the evaluations of lines 244-258 and 279.
AssemblePrompt(current_mode, main_text, metadata, metadata_input_string, authors_note, rating_override, cont_prompt_order, settings) ==
    LET task_type == determine_task(current_mode, main_text, metadata)
        cont == ContParts(main_text, settings.max_context_length)
        internal_input ==
            IF task_type \in {"CONT_INFO", "CONT_ZERO"}
            THEN ContInternalInput(cont, metadata_input_string, authors_note,
                                   cont_prompt_order)
            ELSE metadata_input_string
        prompt_suffix ==
            IF task_type \in {"GEN_INFO", "GEN_ZERO"} THEN main_text
            ELSE IF task_type \in {"IDEA_INFO", "IDEA_ZERO"} THEN <<>>
            ELSE cont.prompt_suffix
        final_instruction == FinalInstruction(task_type, rating_override, settings)
    IN  IF internal_input # <<>>
        THEN <<"[", "I", "N", "S", "T", "]">> \o final_instruction \o <<NL>>
                 \o internal_input \o <<"[", "/", "I", "N", "S", "T", "]">>
                 \o prompt_suffix
        ELSE <<"[", "I", "N", "S", "T", "]">> \o final_instruction
                 \o <<"[", "/", "I", "N", "S", "T", "]">> \o prompt_suffix

\* The metadata dicts of lines 244-256: every outcome of the evaluations.
EvaluatedMetadata(raw_metadata) ==
    {[title |-> t, keywords |-> raw_metadata.keywords, genres |-> raw_metadata.genres,
      synopsis |-> sy, setting |-> se, plot |-> pl,
      dialogue_level |-> raw_metadata.dialogue_level] :
        t \in evaluate_dynamic_prompt(raw_metadata.title),
        sy \in evaluate_dynamic_prompt(raw_metadata.synopsis),
        se \in evaluate_dynamic_prompt(raw_metadata.setting),
        pl \in evaluate_dynamic_prompt(raw_metadata.plot)}

\* build_prompt(current_mode, main_text, ui_data, cont_prompt_order): every
\* prompt it may return; settings is what load_settings() gives.
build_prompt(current_mode, main_text, ui_data, cont_prompt_order, settings) ==
    UNION {UNION {{AssemblePrompt(current_mode, main_text, metadata,
                                  metadata_input_string, authors_note,
                                  ui_data.rating, cont_prompt_order, settings) :
                      authors_note \in evaluate_dynamic_prompt(ui_data.authors_note)} :
                  metadata_input_string \in format_metadata(metadata, current_mode)} :
           metadata \in EvaluatedMetadata(ui_data.metadata)}

\* -------------------------------------------------------- context_utils.py

\* What an oracle call gives when it fails (None).
Failure == -1

\* get_fallback_max_context_length(), with DEFAULT_SETTINGS holding no
\* "max_main_text_chars".
get_fallback_max_context_length == 8192

\* get_true_max_context_length: a positive integer, or None.
IsMaxContextAnswer(value) == value = Failure \/ value > 0

\* count_tokens: an integer that is not negative, or None.
IsTokenCountAnswer(value) == value = Failure \/ value >= 0

\* -------------------------------------------- build_prompt_with_compression
\* The function is imported from prompt_builder.py and is not among the
\* sources; it is written here from section 4.4 of the specification. A
\* fitting run is a record: its arguments, where it stands (pc: "Initial"
\* while the max-context call is pending, "Measuring" while a token-count
\* call is pending, "Fits" or "Exhausted" once it has returned), what it has
\* computed, and what the oracles answered. The mode "char_trim" is left
\* out: the specification does not say what it returns.

CompressionModes == {"token_dynamic", "none"}

\* The run as it is called: nothing computed yet, the max-context call issued.
FitStart(current_mode, main_text, ui_data, cont_prompt_order, compression_mode, max_length_generate, step, settings) ==
    [pc |-> "Initial",
     current_mode |-> current_mode, main_text |-> main_text, ui_data |-> ui_data,
     cont_prompt_order |-> cont_prompt_order, compression_mode |-> compression_mode,
     max_length_generate |-> max_length_generate, step |-> step,
     settings |-> settings,
     budget |-> 0, body |-> main_text, prompt |-> <<>>, total_tokens |-> 0,
     overflow |-> FALSE, shrinks |-> 0,
     ctx_answer |-> Failure, count_answer |-> Failure, failures |-> 0]

\* available budget = true_max_context - max_output_tokens
AvailableBudget(ctx_answer, max_output_tokens) ==
    (IF ctx_answer = Failure THEN get_fallback_max_context_length ELSE ctx_answer)
        - max_output_tokens

\* The total of a prompt: the oracle's count, or a quarter of its characters.
TotalTokens(count_answer, prompt) ==
    IF count_answer = Failure THEN Len(prompt) \div 4 ELSE count_answer

\* The test "the prompt fits", with a budget one token too wide.
PromptFits_OneOver(total_tokens, budget) == total_tokens <= budget + 1

PromptFits(total_tokens, budget) == total_tokens <= budget

\* The test "the body is exhausted", never true.
BodyExhausted_Never(body) == FALSE

BodyExhausted(body) == body = <<>>

\* One shrink step, taken at the right (newest) end.
ShrinkBody_FromRight(body, step) == Take(body, Len(body) - step)

\* One shrink step: `step` characters off the left (oldest) end.
ShrinkBody(body, step) == Drop(body, step)

\* The prompts PromptAssembler may build for the run's current body.
FitPrompts(fit, body) ==
    build_prompt(fit.current_mode, body, fit.ui_data, fit.cont_prompt_order,
                 fit.settings)

\* The max-context call returns: the budget is set, the prompt is built at
\* full body length and its token count is asked for.
FitOnMaxContext(fit, answer) ==
    {[fit EXCEPT !.pc = "Measuring",
                 !.ctx_answer = answer,
                 !.failures = @ + (IF answer = Failure THEN 1 ELSE 0),
                 !.budget = AvailableBudget(answer, fit.max_length_generate),
                 !.prompt = prompt] :
        prompt \in FitPrompts(fit, fit.body)}

\* A token-count call returns: the run returns (Fits, Exhausted), or shrinks
\* the body, rebuilds the prompt and asks again.
FitOnTokenCount(fit, answer) ==
    LET total == TotalTokens(answer, fit.prompt)
        counted == [fit EXCEPT !.count_answer = answer,
                               !.failures = @ + (IF answer = Failure THEN 1 ELSE 0),
                               !.total_tokens = total]
    IN  IF PromptFits(total, fit.budget)
        THEN {[counted EXCEPT !.pc = "Fits", !.overflow = FALSE]}
        ELSE IF fit.compression_mode = "none" \/ BodyExhausted(fit.body)
        THEN {[counted EXCEPT !.pc = "Exhausted", !.overflow = TRUE]}
        ELSE LET body == ShrinkBody(fit.body, fit.step)
             IN  {[counted EXCEPT !.body = body, !.shrinks = @ + 1,
                                  !.prompt = prompt] :
                     prompt \in FitPrompts(fit, body)}

\* The run has returned its CompressionResult.
FitReturned(fit) == fit.pc \in {"Fits", "Exhausted"}

\* ---------------------------------------------------------------- state

VARIABLES
    src_text,        \* evaluator run: the text handed to the function
    eval_pc,         \* evaluator run: "ready", "evaluated" or "checked"
    active_text,     \* evaluate_dynamic_prompt: `text` as it stands at line 65
    evaluated,       \* evaluate_dynamic_prompt: the value returned
    cursor_pos,      \* is_position_valid: the offset asked about
    position_valid,  \* is_position_valid: the value returned
    highlighter,     \* the syntax highlighter: its cache of spans
    build,           \* prompt-building call: arguments, locals, value returned
    token_display,   \* _update_token_display: where it stands, its locals
    fit,             \* fitting run: the run of build_prompt_with_compression
    generation_status,       \* MainWindow: "idle", "single_running", "infinite_running"
    generation_task,         \* MainWindow: the task it holds, or NoTask
    main_text_edit,          \* the body editor: toPlainText()
    text_cursor,             \* the body editor: textCursor().position()
    details,                 \* the details tab: what _get_metadata_from_ui() gives
    is_enabled,              \* AutocompleteManager (and the checkbox that sets it)
    trigger_mode,            \* AutocompleteManager: "auto" or "manual"
    debounce_timer,          \* AutocompleteManager: the timer is running
    ghost_text_cursor,       \* AutocompleteManager: <<start, end>>, or <<>> for None
    current_generation_task, \* AutocompleteManager: the task it holds, or NoTask
    tasks                    \* the asyncio tasks: where each stands, what it holds

evalVars ==
    <<src_text, eval_pc, active_text, evaluated, cursor_pos, position_valid, highlighter>>

buildVars == <<build, token_display>>

fitVars == <<fit>>

windowVars == <<generation_status, generation_task>>

editorVars == <<main_text_edit, text_cursor, ghost_text_cursor>>

managerVars == <<is_enabled, trigger_mode, debounce_timer, current_generation_task>>

appVars == <<windowVars, editorVars, details, managerVars, tasks>>

vars == <<evalVars, buildVars, fitVars, appVars>>

\* No evaluator run, no fitting run.
\* The highlighter before _ensure_cache has run.
NoCache == [pc |-> "none"]

IdleEval ==
    /\ src_text = <<>>
    /\ eval_pc = "none"
    /\ active_text = <<>>
    /\ evaluated = <<>>
    /\ cursor_pos = -1
    /\ position_valid = FALSE
    /\ highlighter = NoCache

NoFit == [pc |-> "none"]

\* No prompt-building call.
NoBuild == [pc |-> "none"]

\* No update of the token display.
NoDisplay == [pc |-> "none"]

MaxTasks == 2

TaskIds == 1..MaxTasks

NoTask == 0

NoMetadata ==
    [title |-> <<>>, keywords |-> <<>>, genres |-> <<>>, synopsis |-> <<>>,
     setting |-> <<>>, plot |-> <<>>, dialogue_level |-> None]

\* _get_metadata_from_ui() with nothing filled in.
EmptyUiData == [metadata |-> NoMetadata, rating |-> None, authors_note |-> <<>>]

\* A task slot that holds no task.
FreeTask ==
    [kind |-> "none", pc |-> "none", cancel_requested |-> FALSE,
     update_behavior |-> "none", fit |-> NoFit,
     main_text |-> <<>>, ui_data |-> EmptyUiData, prompt |-> <<>>,
     start_cursor_pos |-> 0,
     read_text |-> <<>>, read_details |-> EmptyUiData,
     overflowed |-> FALSE, abandoned |-> FALSE]

\* The window and the manager as constructed, the editors empty, no task.
IdleApp ==
    /\ generation_status = "idle"
    /\ generation_task = NoTask
    /\ main_text_edit = <<>>
    /\ text_cursor = 0
    /\ ghost_text_cursor = <<>>
    /\ details = EmptyUiData
    /\ is_enabled = FALSE
    /\ debounce_timer = FALSE
    /\ current_generation_task = NoTask
    /\ tasks = [t \in TaskIds |-> FreeTask]

\* ------------------------------------------------ evaluator runs (SpecEval)

\* What the source texts are made of: plain characters, the line terminator,
\* the group characters, the markers, the comment delimiters, and the two
\* halves of a marker.
Fragments ==
    { <<"A">>, <<"B">>, <<NL>>, <<"{">>, <<"|">>, <<"}">>,
      LitBreak, LitStartpoint, LitEndpoint,
      LitLineOpen, LitBlockOpen, LitBlockClose,
      <<"@", "b", "r">>, <<"e", "a", "k">> }

RECURSIVE TextsOf(_)
TextsOf(n) ==
    IF n = 0 THEN {<<>>}
    ELSE LET shorter == TextsOf(n - 1)
         IN  shorter \cup {t \o f : t \in shorter, f \in Fragments}

\* The texts of the specification's own examples (section 8), and one text
\* in which deleting a comment joins the halves of a marker.
SampleTexts ==
    { <<"A">> \o LitBreak \o <<"B">> \o LitEndpoint \o <<"C">>,
      LitLineOpen \o <<"c", "o", "m", "m", "e", "n", "t", NL, "r", "e", "s", "t">>,
      <<"A", "@", "b", "r">> \o LitBlockOpen \o <<"x">> \o LitBlockClose
          \o <<"e", "a", "k", "B">> }

\* What stands inside the braces of an alternative group: option text, the
\* separator, both quote characters and a blank.
MaxOptionChars == 4

OptionChars == {"a", "b", "|", "\"", "'", " "}

RECURSIVE OptionStrings(_)
OptionStrings(n) ==
    IF n = 0 THEN {<<>>}
    ELSE LET shorter == OptionStrings(n - 1)
         IN  shorter \cup {t \o <<c>> : t \in shorter, c \in OptionChars}

\* One group alone, and one group between quoted literal text.
GroupTexts ==
    LET groups == {<<"{">> \o c \o <<"}">> : c \in OptionStrings(MaxOptionChars)}
    IN  groups \cup {<<"\"", "x", "\"">> \o g \o <<"'">> : g \in groups}

SourceTexts == TextsOf(MaxPieces) \cup SampleTexts \cup GroupTexts

InitEval ==
    /\ src_text \in SourceTexts
    /\ eval_pc = "ready"
    /\ active_text = <<>>
    /\ evaluated = <<>>
    /\ cursor_pos = -1
    /\ position_valid = FALSE
    /\ highlighter = NoCache
    /\ build = NoBuild
    /\ token_display = NoDisplay
    /\ fit = NoFit
    /\ IdleApp
    /\ trigger_mode = "auto"

\* A call evaluate_dynamic_prompt(src_text).
Evaluate ==
    /\ eval_pc = "ready"
    /\ eval_pc' = "evaluated"
    /\ active_text' = ActiveText(src_text)
    /\ evaluated' \in evaluate_dynamic_prompt(src_text)
    /\ UNCHANGED <<src_text, cursor_pos, position_valid, highlighter, buildVars, fitVars,
                   appVars>>

\* A call is_position_valid(src_text, p).
CheckPosition ==
    /\ eval_pc = "ready"
    /\ \E p \in 0..Len(src_text) :
        /\ cursor_pos' = p
        /\ position_valid' = is_position_valid(src_text, p)
    /\ eval_pc' = "checked"
    /\ UNCHANGED <<src_text, active_text, evaluated, highlighter, buildVars, fitVars,
                   appVars>>

NextEval == Evaluate \/ CheckPosition

SpecEval == InitEval /\ [][NextEval]_vars

\* ------------------------------------------- the highlighter (SpecHighlight)
\* A document is opened in the editor: the highlighter computes its spans
\* and is_position_valid is asked about an offset of the same text.

\* Texts with a marker inside a comment and text after it, with a line
\* comment inside a block comment, with a block comment opened inside a line
\* comment, and with an end marker on either side of a start marker.
HighlightSamples ==
    { LitBlockOpen \o LitBreak \o LitBlockClose \o <<"A">> \o LitEndpoint \o <<"B">>,
      LitBlockOpen \o LitLineOpen \o <<NL>> \o LitBreak \o LitBlockClose \o <<"A">>,
      LitLineOpen \o LitBlockOpen \o <<NL>> \o LitBreak \o <<"A">> \o LitBlockClose
          \o <<"B">>,
      LitLineOpen \o LitEndpoint \o <<NL, "A">> \o LitEndpoint \o <<"B">>,
      LitEndpoint \o <<"A">> \o LitBreak \o <<"B">> \o LitEndpoint \o <<"C">>,
      <<"A">> \o LitLineOpen \o <<"x", CR, NL, "B">> }

HighlightTexts == TextsOf(MaxPieces) \cup SampleTexts \cup HighlightSamples

InitHighlight ==
    /\ src_text \in HighlightTexts
    /\ eval_pc = "ready"
    /\ active_text = <<>>
    /\ evaluated = <<>>
    /\ cursor_pos = -1
    /\ position_valid = FALSE
    /\ highlighter = [pc |-> "stale"]
    /\ build = NoBuild
    /\ token_display = NoDisplay
    /\ fit = NoFit
    /\ IdleApp
    /\ trigger_mode = "auto"

\* _ensure_cache() on a document whose revision is not the cached one.
EnsureCache ==
    /\ highlighter.pc = "stale"
    /\ highlighter' = ensure_cache(src_text)
    /\ UNCHANGED <<src_text, eval_pc, active_text, evaluated, cursor_pos, position_valid,
                   buildVars, fitVars, appVars>>

NextHighlight == EnsureCache \/ CheckPosition

SpecHighlight == InitHighlight /\ [][NextHighlight]_vars

\* ---------------------------------------------------- fitting runs (SpecFit)

MaxBodyLen == 9
MaxStep == 3

\* A body of n characters: lines of one letter each, no two neighbouring
\* lines alike.
Letters == <<"a", "b", "c", "d", "e", "f", "g", "h">>

BodyText(n) ==
    [k \in 1..n |-> IF k % 2 = 1 THEN Letters[((((k + 1) \div 2) - 1) % 8) + 1] ELSE NL]

FitBodies == {BodyText(n) : n \in 0..MaxBodyLen}

\* token_compression_step_chars: the settings dialog allows 1 and more.
FitSteps == 1..MaxStep

\* max_length_generate, max_length_autocomplete: budgets of 12 tokens and of
\* less than nothing against a context of 20, a wide budget, 12 and less
\* than nothing against the fallback context.
FitMaxOutputs == {8, get_fallback_max_context_length - 12,
                  get_fallback_max_context_length + 8}

\* What the oracles may answer.
MaxContextAnswers == {a \in {Failure, 20} : IsMaxContextAnswer(a)}
TokenCountAnswers == {a \in {Failure, 0, 12, 13} : IsTokenCountAnswer(a)}

\* _get_metadata_from_ui(): a title and a keyword with alternatives of two
\* lengths, a rating, a note.

FilledUiData ==
    [metadata |-> [NoMetadata EXCEPT !.title = <<"T">>,
                                     !.keywords = << <<"{", "k", "|", "k", "k", "k", "k", "}">> >>],
     rating |-> <<"r">>, authors_note |-> <<"n">>]

FitSettings == [default_rating |-> <<"g">>, max_context_length |-> 3]

InitFit ==
    /\ IdleEval
    /\ build = NoBuild
    /\ token_display = NoDisplay
    /\ IdleApp
    /\ trigger_mode = "auto"
    /\ \E current_mode \in {"generate", "autocomplete"}, main_text \in FitBodies,
          ui_data \in {EmptyUiData, FilledUiData},
          compression_mode \in CompressionModes,
          max_length_generate \in FitMaxOutputs, step \in FitSteps :
        fit = FitStart(current_mode, main_text, ui_data, "reference_first",
                       compression_mode, max_length_generate, step, FitSettings)

\* get_true_max_context_length returns to the run.
FitMaxContextReturns ==
    /\ fit.pc = "Initial"
    /\ \E answer \in MaxContextAnswers : fit' \in FitOnMaxContext(fit, answer)
    /\ UNCHANGED <<evalVars, buildVars, appVars>>

\* count_tokens returns to the run.
FitTokenCountReturns ==
    /\ fit.pc = "Measuring"
    /\ \E answer \in TokenCountAnswers : fit' \in FitOnTokenCount(fit, answer)
    /\ UNCHANGED <<evalVars, buildVars, appVars>>

NextFit == FitMaxContextReturns \/ FitTokenCountReturns

SpecFit == InitFit /\ [][NextFit]_vars

\* ------------------------------------- prompt-building calls (SpecBuild)

MaxBodyLines == 5

\* The lines bodies are made of: a blank line, a line, an indented line.
BodyLines == {<<>>, <<"a">>, <<" ", "b">>}

\* How a body ends: after its last line, with a line terminator, with a
\* full-width period, with a blank.
BodyEndings == {<<>>, <<NL>>, <<Kuten>>, <<" ">>}

RECURSIVE LinesOf(_)
LinesOf(n) ==
    IF n = 0 THEN {<<>>}
    ELSE LET shorter == LinesOf(n - 1)
         IN  shorter \cup {ls \o <<l>> : ls \in shorter, l \in BodyLines}

BuildBodies ==
    {Join(ls, <<NL>>) \o e : ls \in LinesOf(MaxBodyLines), e \in BodyEndings}

\* The modes callers pass: the window's two modes and the autocomplete
\* manager's.
BuildModes == {"generate", "idea", "autocomplete"}

\* The details tab with only blanks typed into the title and the note.
BlankUiData ==
    [EmptyUiData EXCEPT !.metadata.title = <<" ">>, !.authors_note = <<" ">>]

\* The details tab with only a dialogue level selected, and a note.
DialogueUiData ==
    [EmptyUiData EXCEPT !.metadata.dialogue_level = <<"d">>, !.authors_note = <<"n">>]

\* The details tab with only a note, and a rating chosen.
NotedUiData == [EmptyUiData EXCEPT !.authors_note = <<"n">>, !.rating = <<"r">>]

BuildUiData == {EmptyUiData, FilledUiData, BlankUiData, DialogueUiData, NotedUiData}

\* load_settings(): a main part limit of zero, one that cuts and one that
\* does not.
BuildSettings ==
    {[default_rating |-> <<"g">>, max_context_length |-> m] : m \in {0, 2, 100}}

\* A call build_prompt(current_mode, main_text, ui_data, cont_prompt_order),
\* its locals not yet assigned.
BuildStart(current_mode, main_text, ui_data, cont_prompt_order, settings) ==
    [pc |-> "called",
     current_mode |-> current_mode, main_text |-> main_text, ui_data |-> ui_data,
     cont_prompt_order |-> cont_prompt_order, settings |-> settings,
     metadata |-> NoMetadata, authors_note |-> <<>>, task_type |-> "",
     metadata_input_string |-> <<>>, main_part |-> <<>>, tail |-> <<>>,
     prompt_suffix |-> <<>>, internal_input |-> <<>>, prompt |-> <<>>]

InitBuild ==
    /\ IdleEval
    /\ token_display = NoDisplay
    /\ fit = NoFit
    /\ IdleApp
    /\ trigger_mode = "auto"
    /\ \E current_mode \in BuildModes, main_text \in BuildBodies,
          ui_data \in BuildUiData,
          cont_prompt_order \in {"reference_first", "text_first"},
          settings \in BuildSettings :
        build = BuildStart(current_mode, main_text, ui_data, cont_prompt_order,
                           settings)

\* build_prompt runs and returns: the locals as they stand at line 389.
BuildPromptReturns ==
    /\ build.pc = "called"
    /\ \E metadata \in EvaluatedMetadata(build.ui_data.metadata) :
       \E metadata_input_string \in format_metadata(metadata, build.current_mode) :
       \E authors_note \in evaluate_dynamic_prompt(build.ui_data.authors_note) :
          LET task_type ==
                  determine_task(build.current_mode, build.main_text, metadata)
              is_cont == task_type \in {"CONT_INFO", "CONT_ZERO"}
              cont == ContParts(build.main_text, build.settings.max_context_length)
          IN  build' =
                [build EXCEPT
                   !.pc = "returned",
                   !.metadata = metadata,
                   !.authors_note = authors_note,
                   !.task_type = task_type,
                   !.metadata_input_string = metadata_input_string,
                   !.main_part = IF is_cont THEN cont.main_part ELSE <<>>,
                   !.tail = IF is_cont THEN cont.tail ELSE <<>>,
                   !.prompt_suffix =
                       IF is_cont THEN cont.prompt_suffix
                       ELSE IF task_type \in {"GEN_INFO", "GEN_ZERO"}
                       THEN build.main_text ELSE <<>>,
                   !.internal_input =
                       IF is_cont
                       THEN ContInternalInput(cont, metadata_input_string,
                                authors_note, build.cont_prompt_order)
                       ELSE metadata_input_string,
                   !.prompt =
                       AssemblePrompt(build.current_mode, build.main_text,
                           metadata, metadata_input_string, authors_note,
                           build.ui_data.rating, build.cont_prompt_order,
                           build.settings)]
    /\ UNCHANGED <<evalVars, token_display, fitVars, appVars>>

NextBuild == BuildPromptReturns

SpecBuild == InitBuild /\ [][NextBuild]_vars

\* ------------------------------- the fitter called twice (SpecFitTwice)
\* Two fitting runs on one unchanged document with one deterministic
\* oracle. The run record carries, besides the fields of FitStart, which run
\* it is, the oracle, and the result of the first run.

\* A deterministic token-count oracle: it fails, it counts nothing, it
\* counts more than the budget, or it counts a third of the characters.
OracleKinds == {"fails", "nothing", "over", "third"}

OracleCount(kind, prompt) ==
    CASE kind = "fails" -> Failure
      [] kind = "nothing" -> 0
      [] kind = "over" -> 13
      [] kind = "third" -> Len(prompt) \div 3

\* The CompressionResult of a run that has returned.
ResultOf(f) ==
    [prompt |-> f.prompt, total_tokens |-> f.total_tokens, overflow |-> f.overflow,
     original_body_chars |-> Len(f.main_text),
     compressed_body_chars |-> Len(f.body)]

\* A body that a second run would start from if the first run's body leaked.
BodyOfNextRun_Shrunk(f) == f.body

\* Each run starts fresh from the full body.
BodyOfNextRun(f) == f.main_text

InitFitTwice ==
    /\ IdleEval
    /\ build = NoBuild
    /\ token_display = NoDisplay
    /\ IdleApp
    /\ trigger_mode = "auto"
    /\ \E current_mode \in {"generate", "autocomplete"}, main_text \in FitBodies,
          ui_data \in {EmptyUiData, DialogueUiData, FilledUiData},
          compression_mode \in CompressionModes, step \in FitSteps,
          ctx \in MaxContextAnswers, count \in OracleKinds :
        fit = FitStart(current_mode, main_text, ui_data, "reference_first",
                       compression_mode, 8, step, FitSettings)
              @@ [run |-> 1, oracle |-> [ctx |-> ctx, count |-> count],
                  first |-> NoFit]

\* The oracle answers the max-context call of the run.
OracleAnswersMaxContext ==
    /\ fit.pc = "Initial"
    /\ fit' \in FitOnMaxContext(fit, fit.oracle.ctx)
    /\ UNCHANGED <<evalVars, buildVars, appVars>>

\* The oracle answers a token-count call of the run.
OracleAnswersTokenCount ==
    /\ fit.pc = "Measuring"
    /\ fit' \in FitOnTokenCount(fit, OracleCount(fit.oracle.count, fit.prompt))
    /\ UNCHANGED <<evalVars, buildVars, appVars>>

\* The caller calls the fitter again with the same arguments.
CallFitterAgain ==
    /\ FitReturned(fit)
    /\ fit.run = 1
    /\ fit' = FitStart(fit.current_mode, BodyOfNextRun(fit), fit.ui_data,
                       fit.cont_prompt_order, fit.compression_mode,
                       fit.max_length_generate, fit.step, fit.settings)
              @@ [run |-> 2, oracle |-> fit.oracle, first |-> ResultOf(fit)]
    /\ UNCHANGED <<evalVars, buildVars, appVars>>

NextFitTwice ==
    OracleAnswersMaxContext \/ OracleAnswersTokenCount \/ CallFitterAgain

SpecFitTwice == InitFitTwice /\ [][NextFitTwice]_vars

\* ------------------------------------------------- the application (Spec)
\* The window in "generate" mode with the body editor, the details tab, the
\* autocomplete manager and the asyncio tasks. Not modelled: "idea" mode, the
\* settings dialogs, the output pane, the Tab and Escape keys.

MaxDocLen == 1

\* The character a key press puts at an offset.
TypedCharacter(offset) == Letters[(offset % 8) + 1]

\* What a finished autocomplete stream has collected, when it is not empty.
GeneratedText == <<"g">>

\* load_settings() as the tasks read it: compression_mode,
\* max_length_generate / max_length_autocomplete, cont_prompt_order,
\* token_compression_step_chars, default_rating, max_context_length.
AppCompressionMode == "token_dynamic"
AppMaxLength == 8
AppContPromptOrder == "reference_first"
AppStepChars == 1
AppSettings == [default_rating |-> <<"g">>, max_context_length |-> 3]

\* What the oracles answer to the tasks: a context of 20 tokens, a count
\* within the budget, a count over it.
AppMaxContextAnswers == {a \in {20} : IsMaxContextAnswer(a)}
AppTokenCountAnswers == {a \in {0, 13} : IsTokenCountAnswer(a)}

\* The details tab with a title filled in.
TitledUiData == [EmptyUiData EXCEPT !.metadata.title = <<"T">>]

\* Task.done()
TaskDone(task) == task.pc \in {"none", "done"}

\* A task that has returned; whether its fitting run overflowed is kept.
Finished(task) == [FreeTask EXCEPT !.pc = "done", !.overflowed = task.overflowed]

\* asyncio.ensure_future(coroutine): the slot the new task takes. A slot is
\* free when its task is done and the window does not hold it (`held`).
FreeSlots(held) == {t \in TaskIds : TaskDone(tasks[t]) /\ t # held}

NewSlot(held) == CHOOSE t \in FreeSlots(held) : \A u \in FreeSlots(held) : t <= u

\* The body editor.
Editor == [text |-> main_text_edit, cursor |-> text_cursor, ghost |-> ghost_text_cursor]

SetEditor(ed) ==
    /\ main_text_edit' = ed.text
    /\ text_cursor' = ed.cursor
    /\ ghost_text_cursor' = ed.ghost

\* clear_ghost_text(): the ghost range is removed from the document and the
\* cursor is put at its start.
clear_ghost_text(ed) ==
    IF ed.ghost = <<>> THEN ed
    ELSE [text |-> Take(ed.text, ed.ghost[1]) \o Drop(ed.text, ed.ghost[2]),
          cursor |-> ed.ghost[1],
          ghost |-> <<>>]

\* show_ghost_text(text), text not empty: inserted at the cursor, the range
\* kept, the cursor put back.
show_ghost_text(ed, text) ==
    LET cleared == clear_ghost_text(ed)
    IN  [text |-> Take(cleared.text, cleared.cursor) \o text
                      \o Drop(cleared.text, cleared.cursor),
         cursor |-> cleared.cursor,
         ghost |-> <<cleared.cursor, cleared.cursor + Len(text)>>]

\* _stop_current_generation() on the window state w = [status, task, tasks].
stop_current_generation(w) ==
    IF w.status = "idle" \/ w.task = NoTask THEN w
    ELSE IF ~TaskDone(w.tasks[w.task])
    THEN [status |-> "idle", task |-> NoTask,
          tasks |-> [w.tasks EXCEPT ![w.task].cancel_requested = TRUE]]
    ELSE [w EXCEPT !.status = "idle"]

Window == [status |-> generation_status, task |-> generation_task, tasks |-> tasks]

SetWindow(w) ==
    /\ generation_status' = w.status
    /\ generation_task' = w.task
    /\ tasks' = w.tasks

\* The manager's "cancel the current generation task" (lines 143-145,
\* 283-284, 514-515).
CancelCurrentGenerationTask(ts) ==
    IF current_generation_task # NoTask /\ ~TaskDone(ts[current_generation_task])
    THEN [ts EXCEPT ![current_generation_task].cancel_requested = TRUE]
    ELSE ts

\* _on_text_changed and _on_cursor_position_changed after an edit by the
\* user: the timer is restarted unless the manager is off or manual.
TimerAfterEdit ==
    IF is_enabled /\ trigger_mode # "manual" THEN TRUE ELSE debounce_timer

\* A key that puts a character into the body: the manager's handle_key_press
\* clears the ghost text, the editor inserts, both signals reach the manager.
TypeCharacter ==
    LET ed == IF is_enabled THEN clear_ghost_text(Editor) ELSE Editor
    IN  /\ ed.ghost = <<>>
        /\ Len(ed.text) < MaxDocLen
        /\ SetEditor([ed EXCEPT
              !.text = Take(ed.text, ed.cursor) \o <<TypedCharacter(ed.cursor)>>
                           \o Drop(ed.text, ed.cursor),
              !.cursor = ed.cursor + 1])
        /\ debounce_timer' = TimerAfterEdit
        /\ UNCHANGED <<evalVars, buildVars, fitVars, windowVars, details, is_enabled,
                       trigger_mode, current_generation_task, tasks>>

\* The Backspace key.
Backspace ==
    LET ed == IF is_enabled THEN clear_ghost_text(Editor) ELSE Editor
    IN  /\ ed.ghost = <<>>
        /\ ed.cursor > 0
        /\ SetEditor([ed EXCEPT
              !.text = Take(ed.text, ed.cursor - 1) \o Drop(ed.text, ed.cursor),
              !.cursor = ed.cursor - 1])
        /\ debounce_timer' = TimerAfterEdit
        /\ UNCHANGED <<evalVars, buildVars, fitVars, windowVars, details, is_enabled,
                       trigger_mode, current_generation_task, tasks>>

\* The user edits the details tab.
EditDetails ==
    /\ details' = IF details = EmptyUiData THEN TitledUiData ELSE EmptyUiData
    /\ UNCHANGED <<evalVars, buildVars, fitVars, windowVars, editorVars, managerVars, tasks>>

\* ensure_future(coroutine) on the tasks ts: the task is created in slot t.
CreateTask(ts, t, kind) == [ts EXCEPT ![t] = [FreeTask EXCEPT !.kind = kind, !.pc = "created"]]

\* _trigger_single_generation: the ghost text is cleared; a running single
\* generation is stopped; a running infinite generation gets a warning; from
\* idle the body and the details are read and _build_and_run is scheduled.
trigger_single_generation ==
    LET ed == clear_ghost_text(Editor)
    IN  /\ SetEditor(ed)
        /\ IF generation_status = "single_running"
           THEN SetWindow(stop_current_generation(Window))
           ELSE IF generation_status = "infinite_running"
           THEN UNCHANGED <<windowVars, tasks>>
           ELSE /\ FreeSlots(NoTask) # {}
                /\ \E main_text \in evaluate_dynamic_prompt(ed.text) :
                      LET t == NewSlot(NoTask)
                      IN  SetWindow([status |-> "single_running", task |-> t,
                                     tasks |-> [CreateTask(tasks, t, "single") EXCEPT
                                                  ![t].main_text = main_text,
                                                  ![t].ui_data = details,
                                                  ![t].read_text = ed.text,
                                                  ![t].read_details = details]])
        /\ UNCHANGED <<evalVars, buildVars, fitVars, details, managerVars>>

\* _start_infinite_generation: the ghost text is cleared, the status set, the
\* loop scheduled. The prompt built here (infinite_generation_prompt) is
\* never read.
start_infinite_generation ==
    LET t == NewSlot(NoTask)
    IN  /\ FreeSlots(NoTask) # {}
        /\ SetEditor(clear_ghost_text(Editor))
        /\ SetWindow([status |-> "infinite_running", task |-> t,
                      tasks |-> CreateTask(tasks, t, "infinite")])

\* _toggle_infinite_generation
toggle_infinite_generation ==
    /\ IF generation_status \in {"infinite_running", "single_running"}
       THEN SetWindow(stop_current_generation(Window)) /\ UNCHANGED editorVars
       ELSE start_infinite_generation
    /\ UNCHANGED <<evalVars, buildVars, fitVars, details, managerVars>>

\* _toggle_autocomplete_mode(checked), checked being the opposite of what
\* the manager is: switched on, a running infinite generation is stopped and
\* the debounce timer started; switched off, set_enabled(False) stops the
\* timer and clears the ghost text.
toggle_autocomplete_mode ==
    IF ~is_enabled
    THEN /\ SetWindow(IF generation_status = "infinite_running"
                      THEN stop_current_generation(Window) ELSE Window)
         /\ is_enabled' = TRUE
         /\ debounce_timer' = TRUE
         /\ UNCHANGED <<evalVars, buildVars, fitVars, editorVars, details, trigger_mode,
                        current_generation_task>>
    ELSE /\ is_enabled' = FALSE
         /\ debounce_timer' = FALSE
         /\ tasks' = CancelCurrentGenerationTask(tasks)
         /\ SetEditor(clear_ghost_text(Editor))
         /\ UNCHANGED <<evalVars, buildVars, fitVars, generation_status, generation_task,
                        details, trigger_mode, current_generation_task>>

\* The autocomplete runs in flight are abandoned when a new run is started.
Abandon(ts) ==
    [t \in TaskIds |->
        IF ts[t].kind = "autocomplete" /\ ~TaskDone(ts[t])
        THEN [ts[t] EXCEPT !.abandoned = TRUE] ELSE ts[t]]

\* trigger_now (Ctrl+Space in the body with the manager on).
trigger_now ==
    /\ is_enabled
    /\ FreeSlots(generation_task) # {}
    /\ LET t == NewSlot(generation_task)
       IN  tasks' = CreateTask(Abandon(CancelCurrentGenerationTask(tasks)),
                               t, "autocomplete")
    /\ SetEditor(clear_ghost_text(Editor))
    /\ UNCHANGED <<evalVars, buildVars, fitVars, windowVars, details, managerVars>>

\* _on_debounce_timer_timeout: the single-shot timer has run out.
on_debounce_timer_timeout ==
    /\ debounce_timer
    /\ FreeSlots(generation_task) # {}
    /\ debounce_timer' = FALSE
    /\ tasks' = CreateTask(Abandon(tasks), NewSlot(generation_task), "autocomplete")
    /\ UNCHANGED <<evalVars, buildVars, fitVars, windowVars, editorVars, details, is_enabled,
                   trigger_mode, current_generation_task>>

\* The call of build_prompt_with_compression by a task.
StartFit(task, current_mode, main_text, ui_data) ==
    [task EXCEPT !.pc = "fitting", !.main_text = main_text, !.ui_data = ui_data,
                 !.overflowed = FALSE,
                 !.fit = FitStart(current_mode, main_text, ui_data, AppContPromptOrder,
                                  AppCompressionMode, AppMaxLength, AppStepChars,
                                  AppSettings)]

\* prepare_generate_params up to its await: the body and the details are
\* read and the fitting run is called.
prepare_generate_params(task) ==
    {StartFit([task EXCEPT !.read_text = main_text_edit, !.read_details = details],
              "generate", main_text, details) :
        main_text \in evaluate_dynamic_prompt(main_text_edit)}

\* The finally clause of _run_infinite_generation_loop.
FinallyOfLoop(w) ==
    IF w.status = "infinite_running" THEN stop_current_generation(w) ELSE w

\* The head of the while loop of task t: left when the status is no longer
\* "infinite_running"; otherwise the prompt is prepared again ("immediate")
\* or generate_stream is called with the prompt the task has ("manual").
LoopHead(w, t, task) ==
    IF w.status # "infinite_running"
    THEN {[FinallyOfLoop(w) EXCEPT !.tasks[t] = Finished(task)]}
    ELSE IF task.update_behavior = "immediate"
    THEN {[w EXCEPT !.tasks[t] = prepared] : prepared \in prepare_generate_params(task)}
    ELSE {[w EXCEPT !.tasks[t] = [task EXCEPT !.pc = "streaming"]]}

\* The first step of _build_and_run: the fitting run is called with what
\* _trigger_single_generation has read.
build_and_run(t) ==
    /\ tasks[t].kind = "single" /\ tasks[t].pc = "created"
    /\ ~tasks[t].cancel_requested
    /\ tasks' = [tasks EXCEPT ![t] = StartFit(@, "generate", @.main_text, @.ui_data)]
    /\ UNCHANGED <<evalVars, buildVars, fitVars, windowVars, editorVars, details, managerVars>>

\* The first step of _run_infinite_generation_loop: the update behaviour is
\* read from the settings; "manual" prepares the prompt before the loop,
\* "immediate" enters the loop.
run_infinite_generation_loop(t) ==
    /\ tasks[t].kind = "infinite" /\ tasks[t].pc = "created"
    /\ ~tasks[t].cancel_requested
    /\ \E update_behavior \in {"manual", "immediate"} :
          LET task == [tasks[t] EXCEPT !.update_behavior = update_behavior]
          IN  \E w \in (IF update_behavior = "manual"
                        THEN {[Window EXCEPT !.tasks[t] = prepared] :
                                 prepared \in prepare_generate_params(task)}
                        ELSE LoopHead(Window, t, task)) :
                 SetWindow(w)
    /\ UNCHANGED <<evalVars, buildVars, fitVars, editorVars, details, managerVars>>

\* The first step of _generate_autocomplete_async: the cursor and the body
\* are read, the position is checked, the text before the cursor evaluated,
\* the details read and the fitting run called.
generate_autocomplete_async(t) ==
    /\ tasks[t].kind = "autocomplete" /\ tasks[t].pc = "created"
    /\ ~tasks[t].cancel_requested
    /\ LET ts == CancelCurrentGenerationTask(tasks)
           task == [ts[t] EXCEPT !.start_cursor_pos = text_cursor,
                                 !.read_text = main_text_edit,
                                 !.read_details = details]
       IN  IF ~is_position_valid(main_text_edit, text_cursor)
           THEN tasks' = [ts EXCEPT ![t] = Finished(task)]
           ELSE \E text_up_to_cursor \in
                      evaluate_dynamic_prompt(Slice(main_text_edit, 0, text_cursor)) :
                   IF Strip(text_up_to_cursor) = <<>>
                   THEN tasks' = [ts EXCEPT ![t] = Finished(task)]
                   ELSE tasks' = [ts EXCEPT ![t] =
                                     StartFit(task, "autocomplete", text_up_to_cursor, details)]
    /\ UNCHANGED <<evalVars, buildVars, fitVars, windowVars, editorVars, details, managerVars>>

\* get_true_max_context_length answers the fitting run of task t.
MaxContextReturns(t) ==
    /\ tasks[t].pc = "fitting" /\ tasks[t].fit.pc = "Initial"
    /\ ~tasks[t].cancel_requested
    /\ \E answer \in AppMaxContextAnswers : \E f \in FitOnMaxContext(tasks[t].fit, answer) :
          tasks' = [tasks EXCEPT ![t].fit = f]
    /\ UNCHANGED <<evalVars, buildVars, fitVars, windowVars, editorVars, details, managerVars>>

\* warn_short_context_min_chars; warn_short_context_min_ratio is 0.5.
warn_short_context_min_chars == 2500

\* "ratio < min_ratio and compressed_chars < min_chars" of the quality
\* warning, on a fitting run that has returned.
BodyMuchCompressed(f) ==
    /\ Len(f.main_text) > 0
    /\ 2 * Len(f.body) < Len(f.main_text)
    /\ Len(f.body) < warn_short_context_min_chars

\* The prompt a caller hands to generate_stream: the one the fitting run f
\* has returned, here rebuilt from the document as it is now.
PromptToStream_Rebuilt(f) ==
    CHOOSE prompt \in build_prompt(f.current_mode, main_text_edit, details,
                                   f.cont_prompt_order, f.settings) : TRUE

\* The prompt a caller hands to generate_stream: the one the fitting run f
\* has returned.
PromptToStream(f) == f.prompt

\* _build_and_run after the fitting run has returned f.
BuildAndRunContinues(w, t, task, f) ==
    LET given_up == [status |-> "idle", task |-> NoTask,
                     tasks |-> [w.tasks EXCEPT ![t] =
                                  Finished([task EXCEPT !.overflowed = f.overflow])]]
        streaming == [w EXCEPT !.tasks[t] =
                         [task EXCEPT !.fit = f, !.prompt = PromptToStream(f), !.pc = "streaming"]]
    IN  IF f.overflow THEN {given_up}
        ELSE IF BodyMuchCompressed(f) THEN {given_up, streaming}
        ELSE {streaming}

\* _run_infinite_generation_loop after prepare_generate_params has got f.
LoopContinues(w, t, task, f) ==
    IF f.overflow
    THEN LET w1 == IF w.status = "infinite_running" THEN [w EXCEPT !.status = "idle"] ELSE w
             failed == [task EXCEPT !.fit = f, !.overflowed = TRUE]
         IN  IF task.update_behavior = "manual"
             THEN {[stop_current_generation(w1) EXCEPT !.tasks[t] = Finished(failed)]}
             ELSE {[w1 EXCEPT !.tasks[t] = [failed EXCEPT !.pc = "sleeping"]]}
    ELSE LET prepared == [task EXCEPT !.fit = f, !.prompt = PromptToStream(f)]
         IN  IF task.update_behavior = "manual"
             THEN LoopHead(w, t, prepared)
             ELSE {[w EXCEPT !.tasks[t] = [prepared EXCEPT !.pc = "streaming"]]}

\* _generate_autocomplete_async after the fitting run has returned f.
AutocompleteContinues(w, t, task, f) ==
    IF f.overflow
    THEN {[w EXCEPT !.tasks[t] = Finished([task EXCEPT !.overflowed = TRUE])]}
    ELSE {[w EXCEPT !.tasks[t] =
              [task EXCEPT !.fit = f, !.prompt = PromptToStream(f), !.pc = "streaming"]]}

\* count_tokens answers the fitting run of task t: the run goes on, or it
\* returns and its caller goes on to its next await or to its end.
TokenCountReturns(t) ==
    /\ tasks[t].pc = "fitting" /\ tasks[t].fit.pc = "Measuring"
    /\ ~tasks[t].cancel_requested
    /\ \E answer \in AppTokenCountAnswers : \E f \in FitOnTokenCount(tasks[t].fit, answer) :
          \E w \in (IF ~FitReturned(f) THEN {[Window EXCEPT !.tasks[t].fit = f]}
                    ELSE IF tasks[t].kind = "single"
                    THEN BuildAndRunContinues(Window, t, tasks[t], f)
                    ELSE IF tasks[t].kind = "infinite"
                    THEN LoopContinues(Window, t, tasks[t], f)
                    ELSE AutocompleteContinues(Window, t, tasks[t], f)) :
             SetWindow(w)
    /\ UNCHANGED <<evalVars, buildVars, fitVars, editorVars, details, managerVars>>

\* The finally clause of _run_single_generation.
FinallyOfSingle(w, t, task) ==
    [status |-> "idle", task |-> NoTask, tasks |-> [w.tasks EXCEPT ![t] = Finished(task)]]

\* What an autocomplete stream may have collected when it ends.
GeneratedTexts == {<<>>, GeneratedText}

\* The guard of show_ghost_text without the test of the window's
\* generation_status (lines 239-242).
MayDisplay_WhateverStatus(task, generated_text) ==
    /\ generated_text # <<>>
    /\ task.start_cursor_pos = text_cursor
    /\ is_enabled

\* The guard of show_ghost_text at the end of _generate_autocomplete_async.
MayDisplay(task, generated_text) ==
    /\ generated_text # <<>>
    /\ task.start_cursor_pos = text_cursor
    /\ is_enabled
    /\ generation_status = "idle"

\* generate_stream of task t ends without an error: a single generation is
\* over, the infinite loop sleeps before its next round, an autocomplete run
\* may display what it has collected.
StreamEnds(t) ==
    /\ tasks[t].pc = "streaming" /\ ~tasks[t].cancel_requested
    /\ IF tasks[t].kind = "single"
       THEN SetWindow(FinallyOfSingle(Window, t, tasks[t])) /\ UNCHANGED editorVars
       ELSE IF tasks[t].kind = "infinite"
       THEN /\ tasks' = [tasks EXCEPT ![t].pc = "sleeping"]
            /\ UNCHANGED <<windowVars, editorVars>>
       ELSE \E generated_text \in GeneratedTexts :
               IF MayDisplay(tasks[t], generated_text)
               THEN /\ SetEditor(show_ghost_text(Editor, generated_text))
                    /\ tasks' = [tasks EXCEPT ![t] = Finished(@)]
                    /\ UNCHANGED windowVars
               ELSE /\ tasks' = [tasks EXCEPT ![t] = Finished(@)]
                    /\ UNCHANGED <<windowVars, editorVars>>
    /\ UNCHANGED <<evalVars, buildVars, fitVars, details, managerVars>>

\* generate_stream of task t raises KoboldClientError.
StreamFails(t) ==
    /\ tasks[t].pc = "streaming" /\ ~tasks[t].cancel_requested
    /\ IF tasks[t].kind = "single"
       THEN SetWindow(FinallyOfSingle(Window, t, tasks[t]))
       ELSE IF tasks[t].kind = "infinite"
       THEN SetWindow([FinallyOfLoop(stop_current_generation(Window)) EXCEPT
                          !.tasks[t] = Finished(tasks[t])])
       ELSE SetWindow([Window EXCEPT !.tasks[t] = Finished(tasks[t])])
    /\ UNCHANGED <<evalVars, buildVars, fitVars, editorVars, details, managerVars>>

\* A token reaches the infinite loop while the status is not
\* "infinite_running": the loop raises CancelledError itself and is left.
InfiniteStreamStopped(t) ==
    /\ tasks[t].kind = "infinite" /\ tasks[t].pc = "streaming"
    /\ ~tasks[t].cancel_requested
    /\ generation_status # "infinite_running"
    /\ SetWindow([FinallyOfLoop(Window) EXCEPT !.tasks[t] = Finished(tasks[t])])
    /\ UNCHANGED <<evalVars, buildVars, fitVars, editorVars, details, managerVars>>

\* asyncio.sleep(0.5) of the infinite loop is over: back to the loop head.
SleepEnds(t) ==
    /\ tasks[t].kind = "infinite" /\ tasks[t].pc = "sleeping"
    /\ ~tasks[t].cancel_requested
    /\ \E w \in LoopHead(Window, t, tasks[t]) : SetWindow(w)
    /\ UNCHANGED <<evalVars, buildVars, fitVars, editorVars, details, managerVars>>

\* Task.cancel() takes effect: CancelledError is raised at the await task t
\* waits at (a task not yet started never runs). _build_and_run and the
\* preparation before the loop let it through; _run_single_generation and
\* the loop run their finally clauses.
CancelledErrorRaised(t) ==
    /\ ~TaskDone(tasks[t]) /\ tasks[t].cancel_requested
    /\ LET task == tasks[t]
           silent == [Window EXCEPT !.tasks[t] = Finished(task)]
       IN  IF task.pc = "created" \/ task.kind = "autocomplete"
           THEN SetWindow(silent)
           ELSE IF task.kind = "single"
           THEN SetWindow(IF task.pc = "streaming"
                          THEN FinallyOfSingle(Window, t, task) ELSE silent)
           ELSE SetWindow(IF task.pc = "fitting" /\ task.update_behavior = "manual"
                          THEN silent
                          ELSE [FinallyOfLoop(Window) EXCEPT !.tasks[t] = Finished(task)])
    /\ UNCHANGED <<evalVars, buildVars, fitVars, editorVars, details, managerVars>>

\* The window after construction; the trigger mode is what the settings say.
Init ==
    /\ IdleEval
    /\ build = NoBuild
    /\ token_display = NoDisplay
    /\ fit = NoFit
    /\ IdleApp
    /\ trigger_mode \in {"auto", "manual"}

Next ==
    \/ TypeCharacter
    \/ trigger_single_generation
    \/ toggle_infinite_generation
    \/ toggle_autocomplete_mode
    \/ trigger_now
    \/ on_debounce_timer_timeout
    \/ \E t \in TaskIds : build_and_run(t)
    \/ \E t \in TaskIds : run_infinite_generation_loop(t)
    \/ \E t \in TaskIds : generate_autocomplete_async(t)
    \/ \E t \in TaskIds : MaxContextReturns(t)
    \/ \E t \in TaskIds : TokenCountReturns(t)
    \/ \E t \in TaskIds : StreamEnds(t)
    \/ \E t \in TaskIds : StreamFails(t)
    \/ \E t \in TaskIds : InfiniteStreamStopped(t)
    \/ \E t \in TaskIds : SleepEnds(t)
    \/ \E t \in TaskIds : CancelledErrorRaised(t)

\* The application with the details tab left as it is at start and a body
\* that is only added to.
Spec == Init /\ [][Next]_vars

\* --------------------------------------------- one run at a time (SpecOneRun)
\* The application with the details tab edited and characters deleted as
\* well, and a new task scheduled only when no other task is in flight. InfiniteStreamStopped is
\* not among the steps: with one task in flight the status is
\* "infinite_running" for as long as the loop streams uncancelled.

LiveTasks(ts) == {t \in TaskIds : ~TaskDone(ts[t])}

OneRun == Cardinality(LiveTasks(tasks')) <= 1

NextOneRun ==
    \/ TypeCharacter
    \/ Backspace
    \/ EditDetails
    \/ trigger_single_generation /\ OneRun
    \/ toggle_infinite_generation /\ OneRun
    \/ toggle_autocomplete_mode
    \/ trigger_now /\ OneRun
    \/ on_debounce_timer_timeout /\ OneRun
    \/ \E t \in TaskIds : build_and_run(t)
    \/ \E t \in TaskIds : run_infinite_generation_loop(t)
    \/ \E t \in TaskIds : generate_autocomplete_async(t)
    \/ \E t \in TaskIds : MaxContextReturns(t)
    \/ \E t \in TaskIds : TokenCountReturns(t)
    \/ \E t \in TaskIds : StreamEnds(t)
    \/ \E t \in TaskIds : StreamFails(t)
    \/ \E t \in TaskIds : SleepEnds(t)
    \/ \E t \in TaskIds : CancelledErrorRaised(t)

SpecOneRun == Init /\ [][NextOneRun]_vars

\* ------------------------------- generation runs to their end (SpecGeneration)
\* The window with single and infinite generations only, the autocomplete
\* manager left off. build_prompt_with_compression may also raise while a
\* prompt is prepared. The event loop runs every task that is ready, every
\* request to the server ends with an answer or an error, and every stream
\* ends: the steps of the tasks are weakly fair, the user's are not.

\* An exception is raised while task t prepares its prompt (lines 476-484,
\* 838-863). _build_and_run reports it (lines 550-555) and returns;
\* prepare_generate_params reports it and returns False (lines 928-932), and
\* _run_infinite_generation_loop then stops ("manual", lines 941-943) or
\* sleeps and goes back to the loop head ("immediate", lines 956-958).
PreparationFails(t) ==
    /\ tasks[t].pc = "fitting" /\ ~tasks[t].cancel_requested
    /\ tasks[t].kind \in {"single", "infinite"}
    /\ IF tasks[t].kind = "single"
       THEN SetWindow([Window EXCEPT !.tasks[t] = Finished(tasks[t])])
       ELSE IF tasks[t].update_behavior = "manual"
       THEN SetWindow([stop_current_generation(Window) EXCEPT
                          !.tasks[t] = Finished(tasks[t])])
       ELSE SetWindow([Window EXCEPT !.tasks[t].pc = "sleeping"])
    /\ UNCHANGED <<evalVars, buildVars, fitVars, editorVars, details, managerVars>>

\* A step of task t that only the event loop has to take.
TaskStep(t) ==
    \/ build_and_run(t)
    \/ run_infinite_generation_loop(t)
    \/ SleepEnds(t)
    \/ CancelledErrorRaised(t)

\* The preparation of task t's prompt goes on or ends.
PreparationStep(t) ==
    MaxContextReturns(t) \/ TokenCountReturns(t) \/ PreparationFails(t)

\* The stream of task t is over.
StreamStep(t) == StreamEnds(t) \/ StreamFails(t) \/ InfiniteStreamStopped(t)

NextGeneration ==
    \/ TypeCharacter
    \/ trigger_single_generation
    \/ toggle_infinite_generation
    \/ \E t \in TaskIds : TaskStep(t)
    \/ \E t \in TaskIds : PreparationStep(t)
    \/ \E t \in TaskIds : StreamStep(t)

FairGeneration ==
    \A t \in TaskIds :
        /\ WF_vars(TaskStep(t))
        /\ WF_vars(PreparationStep(t))
        /\ WF_vars(StreamStep(t))

SpecGeneration == Init /\ [][NextGeneration]_vars /\ FairGeneration

\* ------------------------------------ the token display (SpecDisplay)
\* The window in "generate" or "idea" mode runs _update_token_display on a
\* document; the two oracles answer or fail.

\* The context size _update_token_display falls back to (main.py:1436).
display_fallback_max_context == 20000

\* max_length_generate and max_length_idea of the settings.
DisplayMaxOutput(current_mode) ==
    IF current_mode = "idea" THEN AppMaxLength + 4 ELSE AppMaxLength

InitDisplay ==
    /\ IdleEval
    /\ build = NoBuild
    /\ fit = NoFit
    /\ generation_status = "idle"
    /\ generation_task = NoTask
    /\ main_text_edit \in FitBodies
    /\ text_cursor = 0
    /\ ghost_text_cursor = <<>>
    /\ details \in {EmptyUiData, DialogueUiData, FilledUiData}
    /\ is_enabled = FALSE
    /\ trigger_mode = "auto"
    /\ debounce_timer = FALSE
    /\ current_generation_task = NoTask
    /\ tasks = [t \in TaskIds |-> FreeTask]
    /\ \E current_mode \in {"generate", "idea"} :
          token_display = [pc |-> "scheduled", current_mode |-> current_mode]

\* Lines 1398-1434: nothing to count for an empty body; else the prompt is
\* built, the max output is read and the max-context query is sent.
update_token_display ==
    /\ token_display.pc = "scheduled"
    /\ IF Len(main_text_edit) = 0
       THEN token_display' =
                [pc |-> "shown", current_mode |-> token_display.current_mode,
                 label |-> "zero"]
       ELSE \E prompt \in build_prompt(token_display.current_mode, main_text_edit,
                                       details, AppContPromptOrder, AppSettings) :
                token_display' =
                    [pc |-> "awaits_max_context",
                     current_mode |-> token_display.current_mode,
                     prompt |-> prompt,
                     max_output |-> DisplayMaxOutput(token_display.current_mode)]
    /\ UNCHANGED <<evalVars, build, fitVars, appVars>>

\* Lines 1434-1441: the max-context query returns; None is replaced by the
\* fallback; the token-count query is sent.
DisplayMaxContextReturns ==
    /\ token_display.pc = "awaits_max_context"
    /\ \E answer \in MaxContextAnswers :
        LET max_context ==
                IF answer = Failure THEN display_fallback_max_context ELSE answer
        IN  token_display' =
                [pc |-> "awaits_token_count",
                 current_mode |-> token_display.current_mode,
                 prompt |-> token_display.prompt,
                 max_output |-> token_display.max_output,
                 ctx_answer |-> answer,
                 available_context |-> max_context - token_display.max_output]
    /\ UNCHANGED <<evalVars, build, fitVars, appVars>>

\* Lines 1441-1454: the token-count query returns; None is replaced by a
\* quarter of the prompt's length; the label is set.
DisplayTokenCountReturns ==
    /\ token_display.pc = "awaits_token_count"
    /\ \E answer \in TokenCountAnswers :
        LET prompt_tokens ==
                IF answer = Failure THEN Len(token_display.prompt) \div 4 ELSE answer
        IN  token_display' =
                [pc |-> "shown", current_mode |-> token_display.current_mode,
                 label |-> "counted",
                 prompt |-> token_display.prompt,
                 max_output |-> token_display.max_output,
                 ctx_answer |-> token_display.ctx_answer,
                 count_answer |-> answer,
                 available_context |-> token_display.available_context,
                 prompt_tokens |-> prompt_tokens,
                 compression_needed |->
                     prompt_tokens > token_display.available_context]
    /\ UNCHANGED <<evalVars, build, fitVars, appVars>>

NextDisplay ==
    update_token_display \/ DisplayMaxContextReturns \/ DisplayTokenCountReturns

SpecDisplay == InitDisplay /\ [][NextDisplay]_vars

\* ------------------------------------- claims about the template evaluator

HasNo(text, c) == \A k \in 1..Len(text) : text[k] # c

\* "@//" + comment + newline + rest, with no template syntax in rest.
IsLineCommentThenRest(text) ==
    /\ StartsWithAt(text, 0, LitLineOpen)
    /\ Find(text, <<NL>>, 3) # -1
    /\ LET rest == Drop(text, Find(text, <<NL>>, 3) + 1)
       IN  HasNo(rest, "@") /\ HasNo(rest, "{") /\ HasNo(rest, "}")

RestAfterFirstLine(text) == Drop(text, Find(text, <<NL>>, 3) + 1)

\* C7: evaluate_dynamic_prompt applied to "@//" + comment + newline + rest
\* returns exactly rest: the line comment goes together with the line
\* terminator that ends it.
C7_LineCommentDeletedWithTerminator ==
    (eval_pc = "evaluated" /\ IsLineCommentThenRest(src_text))
        => evaluated = RestAfterFirstLine(src_text)

\* C8 as stated: every text without "{" is returned unchanged.
C8_NoBraceTextUnchanged ==
    (eval_pc = "evaluated" /\ HasNo(src_text, "{")) => evaluated = src_text

\* The text holds no comment and no range marker.
NoCommentOrMarker(text) ==
    /\ BlockCommentMatches(text, 0) = <<>>
    /\ LineCommentMatches(text, 0) = <<>>
    /\ BreakMatches(text) = <<>>
    /\ EndpointMatches(text) = <<>>

\* C8, amended: every text that holds no "{", no comment and no range
\* marker is returned unchanged.
C8_PlainTextUnchanged ==
    (eval_pc = "evaluated" /\ HasNo(src_text, "{") /\ NoCommentOrMarker(src_text))
        => evaluated = src_text

\* C8's case: a text with "@" in it, but no "{", comment or marker (an
\* unclosed "@/*", half a marker), has been evaluated.
C8_Witness ==
    /\ eval_pc = "evaluated"
    /\ HasNo(src_text, "{")
    /\ NoCommentOrMarker(src_text)
    /\ ~HasNo(src_text, "@")
    /\ Len(src_text) > 5
    /\ evaluated = src_text

\* The source offsets of the characters left by lines 49-50, in order.
StrippedOffsets(text) ==
    LET keep1 == OffsetsOutside(text, BlockCommentMatches(text, 0))
        t1 == StripBlockComments(text)
        keep2 == OffsetsOutside(t1, LineCommentMatches(t1, 0))
    IN  [k \in 1..Len(keep2) |-> keep1[keep2[k] + 1]]

\* The source offsets of the characters left by lines 49-63.
KeptOffsets(text) ==
    LET src == StrippedOffsets(text)
        stripped == StripComments(text)
        a == RangeStart(stripped)
        e == Find(Drop(stripped, a), LitEndpoint, 0)
        b == IF e = -1 THEN Len(stripped) ELSE a + e
    IN  {src[j + 1] : j \in a..(b - 1)}

\* The region C9 describes, read off the source: the characters outside
\* comments, from the end of the last start marker that stands in the source
\* outside comments, up to the first "@endpoint" that stands in the source
\* outside comments at or after that start.
ClaimedRegion(text) ==
    LET src == StrippedOffsets(text)
        outside == {src[k] : k \in 1..Len(src)}
        starts == SelectSeq(BreakMatches(text), LAMBDA m : m[1] \in outside)
        start == IF starts = <<>> THEN 0 ELSE starts[Len(starts)][2]
        ends == SelectSeq(EndpointMatches(text),
                    LAMBDA m : m[1] \in outside /\ m[1] >= start)
        end == IF ends = <<>> THEN Len(text) ELSE ends[1][1]
        region == SelectSeq(src, LAMBDA o : start <= o /\ o < end)
    IN  [k \in 1..Len(region) |-> text[region[k] + 1]]

\* C9: alternative selection works on the source with comments removed, cut
\* after the last start marker outside comments in the source and before the
\* first "@endpoint" outside comments at or after it; a marker that exists
\* only once a comment is deleted does not move the region.
C9_RegionFromSourceMarkers ==
    eval_pc = "evaluated" => active_text = ClaimedRegion(src_text)

\* C10: for every offset p < len(text), is_position_valid(text, p) is true
\* exactly when the character at p is kept by the evaluator's comment
\* deletion and range truncation.
C10_PositionValidIffKept ==
    (eval_pc = "checked" /\ cursor_pos < Len(src_text))
        => (position_valid <=> cursor_pos \in KeptOffsets(src_text))


\* The options of a group's content as the specification describes them:
\* the content is cut at every "|" that does not stand inside a quoted
\* option (an option that opens with a quote character and has its closing
\* quote), and blank options are dropped.
RECURSIVE PipeSeparated(_, _)
PipeSeparated(s, from) ==
    IF from > Len(s) THEN <<>>
    ELSE LET q == IF from < Len(s) THEN s[from + 1] ELSE ""
             closing == IF q \in {"\"", "'"} THEN Find(s, <<q>>, from + 1) ELSE -1
             bar == IF closing # -1 THEN Find(s, <<"|">>, closing + 1)
                    ELSE Find(s, <<"|">>, from)
             end == IF bar = -1 THEN Len(s) ELSE bar
             option == Strip(Slice(s, from, end))
         IN  (IF option = <<>> THEN <<>> ELSE <<option>>)
                 \o (IF bar = -1 THEN <<>> ELSE PipeSeparated(s, bar + 1))

\* What a group may be replaced by according to the specification: one of
\* its options without its outer quotes, or the group itself when it has no
\* option.
ClaimedReplacements(group) ==
    LET options == PipeSeparated(SubSeq(group, 2, Len(group) - 1), 0)
    IN  IF options = <<>>
        THEN {group}
        ELSE {StripOuterQuotes(options[k]) : k \in 1..Len(options)}

\* The texts the specification allows for s from offset `from` on: every
\* group (a "{", at least one character other than "}", a "}") replaced
\* as claimed, everything else kept.
RECURSIVE ClaimedEvaluation(_, _)
ClaimedEvaluation(s, from) ==
    LET open == Find(s, <<"{">>, from)
        close == IF open = -1 THEN -1 ELSE Find(s, <<"}">>, open + 1)
    IN  IF open = -1 \/ close = -1
        THEN {Drop(s, from)}
        ELSE IF close = open + 1
        THEN {Slice(s, from, open + 1) \o rest :
                 rest \in ClaimedEvaluation(s, open + 1)}
        ELSE {Slice(s, from, open) \o r \o rest :
                 r \in ClaimedReplacements(Slice(s, open, close + 1)),
                 rest \in ClaimedEvaluation(s, close + 1)}

\* C11: an evaluation replaces every group that has an option by one of its
\* pipe-separated options without its outer quotes, every such option can
\* be the one chosen, a group without options and all text outside groups
\* stay as they are.
C11_GroupReplacedByPipeOption ==
    eval_pc = "evaluated" =>
        /\ evaluated \in ClaimedEvaluation(active_text, 0)
        /\ ClaimedEvaluation(active_text, 0) \subseteq evaluate_dynamic_prompt(src_text)

\* --------------------------------------- claims about the prompt builder

\* body is the end of text.
IsSuffixOf(body, text) ==
    /\ Len(body) <= Len(text)
    /\ body = [k \in 1..Len(body) |-> text[Len(text) - Len(body) + k]]

\* The text has a character that is not whitespace.
NonBlank(s) == \E k \in 1..Len(s) : s[k] \notin Whitespace

\* The number of lines with content: the offsets of the first character
\* that is not whitespace in its line.
NonBlankLineCount(s) ==
    Cardinality({k \in 1..Len(s) :
        /\ s[k] \notin Whitespace
        /\ \A j \in 1..(k - 1) :
              (\A i \in j..(k - 1) : s[i] \notin {NL, CR}) => s[j] \in Whitespace})

\* One of the six fields is not empty.
AnyFieldNonEmpty(metadata) ==
    \/ metadata.title # <<>>
    \/ metadata.keywords # <<>>
    \/ metadata.genres # <<>>
    \/ metadata.synopsis # <<>>
    \/ metadata.setting # <<>>
    \/ metadata.plot # <<>>

\* One of the four text fields has content, or a tag list is not empty.
AnyFieldNonBlank(metadata) ==
    \/ NonBlank(metadata.title)
    \/ metadata.keywords # <<>>
    \/ metadata.genres # <<>>
    \/ NonBlank(metadata.synopsis)
    \/ NonBlank(metadata.setting)
    \/ NonBlank(metadata.plot)

\* The task type of generation mode as the specification gives it.
ClaimedGenerationTask(main_text, info) ==
    IF NonBlankLineCount(main_text) < 4
    THEN IF info THEN "GEN_INFO" ELSE "GEN_ZERO"
    ELSE IF info THEN "CONT_INFO" ELSE "CONT_ZERO"

BuildReturned == build.pc = "returned"

\* C12 as stated: in generation mode the task is GEN below 4 non-blank
\* lines and CONT from 4 on, INFO exactly when one of the six fields is
\* non-empty or a dialogue level is present.
C12_InfoWhenFieldNonEmpty ==
    (BuildReturned /\ build.current_mode = "generate") =>
        build.task_type =
            ClaimedGenerationTask(build.main_text,
                AnyFieldNonEmpty(build.metadata)
                    \/ build.metadata.dialogue_level # None)

\* C12 amended: as above, with INFO exactly when one of the text fields has
\* a character that is not whitespace, a tag list is non-empty, or a
\* dialogue level is present.
C12_InfoWhenFieldNonBlank ==
    (BuildReturned /\ build.current_mode = "generate") =>
        build.task_type =
            ClaimedGenerationTask(build.main_text,
                AnyFieldNonBlank(build.metadata)
                    \/ build.metadata.dialogue_level # None)

\* A continuation whose only metadata is the dialogue level.
C12_Witness ==
    /\ BuildReturned
    /\ build.current_mode = "generate"
    /\ build.task_type = "CONT_INFO"
    /\ ~AnyFieldNonEmpty(build.metadata)

\* C13 as stated: in idea mode the task is IDEA_INFO exactly when one of
\* the six fields is non-empty and IDEA_ZERO otherwise, whatever the body
\* and the dialogue level are.
C13_IdeaInfoWhenFieldNonEmpty ==
    (BuildReturned /\ build.current_mode = "idea") =>
        build.task_type =
            IF AnyFieldNonEmpty(build.metadata) THEN "IDEA_INFO" ELSE "IDEA_ZERO"

\* C13 amended: in idea mode the task is IDEA_INFO exactly when one of the
\* text fields has a character that is not whitespace or a tag list is
\* non-empty, and IDEA_ZERO otherwise, whatever the body and the dialogue
\* level are.
C13_IdeaInfoWhenFieldNonBlank ==
    (BuildReturned /\ build.current_mode = "idea") =>
        build.task_type =
            IF AnyFieldNonBlank(build.metadata) THEN "IDEA_INFO" ELSE "IDEA_ZERO"

\* An idea call with a dialogue level and a body of four lines or more.
C13_Witness ==
    /\ BuildReturned
    /\ build.current_mode = "idea"
    /\ build.metadata.dialogue_level # None
    /\ NonBlankLineCount(build.main_text) >= 4
    /\ build.task_type = "IDEA_ZERO"

InstOpen == <<"[", "I", "N", "S", "T", "]">>
InstClose == <<"[", "/", "I", "N", "S", "T", "]">>

\* A prompt with both instruction delimiters, the instruction of the task
\* right after the opening one.
IsCompletePrompt(prompt, task_type) ==
    /\ StartsWithAt(prompt, 0, InstOpen \o INSTRUCTION_TEMPLATES(task_type))
    /\ Find(prompt, InstClose, Len(InstOpen)) # -1

UnknownMode == build.current_mode \notin {"generate", "idea"}

\* C14: a call with a mode other than generate and idea returns, its task is
\* GEN_ZERO whatever the body and the metadata are, and what it returns is a
\* complete prompt.
C14_UnknownModeIsGenZero ==
    /\ (build.pc = "called" /\ UnknownMode) =>
          build_prompt(build.current_mode, build.main_text, build.ui_data,
                       build.cont_prompt_order, build.settings) # {}
    /\ (BuildReturned /\ UnknownMode) =>
          /\ build.task_type = "GEN_ZERO"
          /\ IsCompletePrompt(build.prompt, "GEN_ZERO")

\* The autocomplete mode with metadata and a body of four lines or more.
C14_Witness ==
    /\ BuildReturned
    /\ build.current_mode = "autocomplete"
    /\ AnyFieldNonBlank(build.metadata)
    /\ NonBlankLineCount(build.main_text) >= 4
    /\ build.task_type = "GEN_ZERO"

\* a and b joined by one newline; an empty side leaves no separator.
JoinPresent(a, b) ==
    IF a = <<>> THEN b ELSE IF b = <<>> THEN a ELSE a \o <<NL>> \o b

\* A block: its header, the content between two fences, each on its own
\* line; no block for no content.
ClaimedBlock(header, content) ==
    IF content = <<>> THEN <<>>
    ELSE header \o <<NL>> \o Fence \o <<NL>> \o content \o <<NL>> \o Fence

\* The input section of a CONT task as the specification gives it.
ClaimedContInput(reference, main_part, note, tail, cont_prompt_order) ==
    LET reference_block == ClaimedBlock(Lit("ja_reference_header", 6), reference)
        main_block == ClaimedBlock(Lit("ja_main_text_header", 4), main_part)
        note_block == ClaimedBlock(Lit("ja_authors_note_header", 10), note)
        first == IF cont_prompt_order = "reference_first"
                 THEN JoinPresent(reference_block, main_block)
                 ELSE JoinPresent(main_block, reference_block)
    IN  JoinPresent(JoinPresent(first, note_block), tail)

IsContTask == build.task_type \in {"CONT_INFO", "CONT_ZERO"}

\* C15: the input section of a CONT task is made of the present blocks among
\* reference, main part, note and tail, in the configured order, joined by
\* one newline each, with nothing left by an absent block.
C15_ContInputIsPresentBlocksInOrder ==
    (BuildReturned /\ IsContTask) =>
        build.internal_input =
            ClaimedContInput(build.metadata_input_string, build.main_part,
                             Strip(build.authors_note), build.tail,
                             build.cont_prompt_order)

\* A continuation under text_first with all four blocks.
C15_Witness ==
    /\ BuildReturned
    /\ IsContTask
    /\ build.cont_prompt_order = "text_first"
    /\ build.metadata_input_string # <<>>
    /\ build.main_part # <<>>
    /\ Strip(build.authors_note) # <<>>
    /\ build.tail # <<>>

\* The lines of s that have content, each without surrounding whitespace.
RECURSIVE StrippedLinesOf(_)
StrippedLinesOf(lines) ==
    IF lines = <<>> THEN <<>>
    ELSE (IF NonBlank(Head(lines)) THEN <<Strip(Head(lines))>> ELSE <<>>)
             \o StrippedLinesOf(Tail(lines))

NonBlankLines(s) == StrippedLinesOf(SplitLines(s))

\* The lines with content that the prompt of a CONT task holds.
PlacedLines ==
    NonBlankLines(build.main_part) \o NonBlankLines(build.tail)
        \o NonBlankLines(build.prompt_suffix)

\* The main part before line 342 cuts it.
UncutMainPart == ContParts(build.main_text, Len(build.main_text)).main_part

\* C16 as stated: for every body of a CONT task the lines with content of
\* main part, tail and suffix are, in order, the lines with content of the
\* body.
C16_LinesPreserved ==
    (BuildReturned /\ IsContTask) => PlacedLines = NonBlankLines(build.main_text)

\* C16 amended: the same when the main part is no longer than
\* max_context_length; a longer main part is cut from the left, and then
\* tail and suffix still hold the last lines of the body and the main part
\* placed is the end of the uncut one.
C16_LinesPreservedUnlessCut ==
    (BuildReturned /\ IsContTask) =>
        /\ Len(UncutMainPart) <= build.settings.max_context_length
              => PlacedLines = NonBlankLines(build.main_text)
        /\ IsSuffixOf(NonBlankLines(build.tail) \o NonBlankLines(build.prompt_suffix),
                      NonBlankLines(build.main_text))
        /\ IsSuffixOf(build.main_part, UncutMainPart)
        /\ NonBlankLines(UncutMainPart) \o NonBlankLines(build.tail)
              \o NonBlankLines(build.prompt_suffix) = NonBlankLines(build.main_text)

\* A continuation with blank lines in its body, a main part that is not cut
\* and a suffix.
C16_Witness ==
    /\ BuildReturned
    /\ IsContTask
    /\ build.main_part # <<>>
    /\ build.main_part = UncutMainPart
    /\ build.prompt_suffix # <<>>
    /\ Len(NonBlankLines(build.main_text)) < Len(SplitLines(build.main_text))

\* The rating a call uses according to the specification: the one chosen in
\* the details tab when there is one, else the configured default.
ClaimedRating ==
    IF build.ui_data.rating \notin {None, <<>>}
    THEN build.ui_data.rating ELSE build.settings.default_rating

\* The instruction of the task, a blank, the rating label, the rating.
ClaimedInstruction ==
    INSTRUCTION_TEMPLATES(build.task_type) \o <<" ">> \o Lit("ja_rating", 6)
        \o <<":", " ">> \o ClaimedRating

\* C17: for every task type the prompt is the opening delimiter, the
\* instruction with the rating, a newline and the input section when there
\* is one, the closing delimiter and the suffix; the rating is the caller's
\* when given and the configured default otherwise.
C17_PromptFormat ==
    BuildReturned =>
        build.prompt =
            IF build.internal_input # <<>>
            THEN InstOpen \o ClaimedInstruction \o <<NL>> \o build.internal_input
                     \o InstClose \o build.prompt_suffix
            ELSE InstOpen \o ClaimedInstruction \o InstClose \o build.prompt_suffix

\* A call with a rating chosen, no input section, and a suffix.
C17_Witness ==
    /\ BuildReturned
    /\ build.ui_data.rating \notin {None, <<>>}
    /\ build.internal_input = <<>>
    /\ build.prompt_suffix # <<>>

IsGenTask == build.task_type \in {"GEN_INFO", "GEN_ZERO"}

IsIdeaTask == build.task_type \in {"IDEA_INFO", "IDEA_ZERO"}

\* The prompts of the same call with an empty body.
PromptsWithoutBody ==
    build_prompt(build.current_mode, <<>>, build.ui_data,
                 build.cont_prompt_order, build.settings)

\* C18: for a GEN task the input section is the formatted metadata block,
\* empty when all fields are empty, and the body stands unchanged after the
\* closing delimiter and nowhere else (the prompt is a prompt of the empty
\* body followed by the body); for an IDEA task the prompt is a prompt of
\* the empty body.
C18_BodyOnlyAfterDelimiter ==
    /\ (BuildReturned /\ IsGenTask) =>
          /\ build.internal_input \in format_metadata(build.metadata, build.current_mode)
          /\ (~AnyFieldNonEmpty(build.metadata) /\ build.metadata.dialogue_level = None)
                => build.internal_input = <<>>
          /\ \E head \in PromptsWithoutBody :
                /\ build.prompt = head \o build.main_text
                /\ IsSuffixOf(InstClose, head)
    /\ (BuildReturned /\ IsIdeaTask) => build.prompt \in PromptsWithoutBody

\* A GEN task with metadata and a body of two lines that ends with a blank.
C18_Witness ==
    /\ BuildReturned
    /\ build.task_type = "GEN_INFO"
    /\ build.internal_input # <<>>
    /\ NonBlankLineCount(build.main_text) = 2
    /\ build.main_text[Len(build.main_text)] = " "

\* The body ends with a sentence-terminating mark: a full-width period or a
\* closing bracket before its trailing blanks, or a line terminator after
\* some content.
EndsWithMark(body) ==
    \/ \E k \in 1..Len(body) :
          /\ body[k] \in {Kuten, ClosingBracket}
          /\ \A j \in (k + 1)..Len(body) : body[j] \in {" ", "\t"}
    \/ /\ body # <<>>
       /\ body[Len(body)] = NL
       /\ NonBlank(body)

\* The lines of a text that have content, as they stand.
ContentLines(s) == SelectSeq(SplitLines(s), NonBlank)

\* The line (from 0) at which the tail of a body ends: the last line with
\* content of a body that ends with a mark, the one before it otherwise.
TailEndLine(body) ==
    LET content == ContentLineIndices(SplitLines(body))
    IN  IF EndsWithMark(body) THEN content[Len(content)]
        ELSE content[Len(content) - 1]

\* The suffix of a body: none after a mark, the stripped last line with
\* content otherwise.
ClaimedSuffix(body) ==
    LET lines == ContentLines(body)
    IN  IF EndsWithMark(body) THEN <<>> ELSE Strip(lines[Len(lines)])

\* The up-to-3 lines with content that end at the tail's last line, and the
\* line (from 0) of the first of them.
ClaimedTailLines(body) ==
    LET lines == ContentLines(body)
        last == IF EndsWithMark(body) THEN Len(lines) ELSE Len(lines) - 1
        first == IF last - 2 < 1 THEN 1 ELSE last - 2
    IN  SubSeq(lines, first, last)

ClaimedTailStart(body) ==
    LET content == ContentLineIndices(SplitLines(body))
        last == IF EndsWithMark(body) THEN Len(content) ELSE Len(content) - 1
        first == IF last - 2 < 1 THEN 1 ELSE last - 2
    IN  content[first]

\* C21 as stated: for the body of a CONT task the suffix is empty after a
\* sentence-terminating mark and the stripped last non-blank line otherwise,
\* the tail holds the last up-to-3 non-blank lines ending at the last
\* non-blank line (after a mark) or at the second-to-last one, and the main
\* part is all text before the first of these lines.
C21_TailOfNonBlankLines ==
    (BuildReturned /\ IsContTask) =>
        /\ build.prompt_suffix = ClaimedSuffix(build.main_text)
        /\ ContentLines(build.tail) = ClaimedTailLines(build.main_text)
        /\ UncutMainPart =
              Join(Slice(SplitLines(build.main_text), 0,
                         ClaimedTailStart(build.main_text)), <<NL>>)

\* C21 amended: the suffix is as stated; the tail is the up-to-3 consecutive
\* lines of the body, blank ones included, that end at the last non-blank
\* line (after a mark) or at the second-to-last one, and the main part is
\* all text before the first of these lines.
C21_TailOfConsecutiveLines ==
    (BuildReturned /\ IsContTask) =>
        LET lines == SplitLines(build.main_text)
            e == TailEndLine(build.main_text)
            s == IF e < 2 THEN 0 ELSE e - 2
        IN  /\ build.prompt_suffix = ClaimedSuffix(build.main_text)
            /\ build.tail = Join(Slice(lines, s, e + 1), <<NL>>)
            /\ UncutMainPart = Join(Slice(lines, 0, s), <<NL>>)

\* A continuation after a mark whose tail holds a blank line, so that fewer
\* than 3 lines with content are in it, and which has a main part.
C21_Witness ==
    /\ BuildReturned
    /\ IsContTask
    /\ EndsWithMark(build.main_text)
    /\ build.prompt_suffix = <<>>
    /\ Len(SplitLines(build.tail)) = 3
    /\ Len(ContentLines(build.tail)) < 3
    /\ UncutMainPart # <<>>

\* C22: for a CONT task and every maximum length L >= 0 the main part
\* placed in the prompt is the rightmost min(len, L) characters of the uncut
\* main part, so it is never longer than L.
C22_MainPartIsRightmostL ==
    (BuildReturned /\ IsContTask) =>
        LET L == build.settings.max_context_length
            kept == IF Len(UncutMainPart) < L THEN Len(UncutMainPart) ELSE L
        IN  /\ build.main_part = Drop(UncutMainPart, Len(UncutMainPart) - kept)
            /\ Len(build.main_part) <= L

\* The *_INFO task types.
InfoTasks == {"GEN_INFO", "CONT_INFO", "IDEA_INFO"}

\* C26: for every mode and document state build_prompt uses a *_INFO task
\* type exactly when the formatted metadata block it puts into the prompt is
\* non-empty.
C26_InfoIffMetadataBlock ==
    BuildReturned =>
        (build.task_type \in InfoTasks <=> build.metadata_input_string # <<>>)

\* ------------------------------------------- claims about the context fitter

\* The budget of the run, from what the max-context oracle answered.
BudgetOfRun ==
    (IF fit.ctx_answer = Failure THEN 8192 ELSE fit.ctx_answer) - fit.max_length_generate

\* The count of the prompt the run holds, from what the token oracle answered.
CountOfPrompt ==
    IF fit.count_answer = Failure THEN Len(fit.prompt) \div 4 ELSE fit.count_answer

\* C1: a token-dynamic run that returns overflow=false returns a total that
\* is the count of the returned prompt and is at most the budget (the max
\* context, or its fallback, minus the max output tokens); a run that returns
\* overflow=true has shrunk the body to nothing and the prompt rebuilt with
\* the empty body still counts more than the budget.
C1_FitsWithinBudget ==
    (FitReturned(fit) /\ fit.compression_mode = "token_dynamic") =>
        /\ fit.total_tokens = CountOfPrompt
        /\ fit.overflow <=> fit.pc = "Exhausted"
        /\ ~fit.overflow => fit.total_tokens <= BudgetOfRun
        /\ fit.overflow =>
            /\ fit.body = <<>>
            /\ fit.shrinks * fit.step >= Len(fit.main_text)
            /\ fit.prompt \in FitPrompts(fit, <<>>)
            /\ fit.total_tokens > BudgetOfRun

\* A token-dynamic run has fitted after shrinking, on an oracle count.
C1_Witness ==
    /\ fit.pc = "Fits"
    /\ fit.compression_mode = "token_dynamic"
    /\ fit.shrinks >= 2
    /\ fit.count_answer # Failure
    /\ fit.total_tokens = BudgetOfRun

\* The number of shrink steps is at most the body length over the step
\* size, rounded up.
ShrinksBounded ==
    fit.pc # "none" => fit.shrinks * fit.step < Len(fit.main_text) + fit.step

\* A step that does not end the run cuts the body (Measuring to Measuring),
\* or is the first one (Initial to Measuring).
ShrinkStepCutsBody ==
    (fit.pc = "Measuring" /\ ~FitReturned(fit')) =>
        /\ fit'.pc = "Measuring"
        /\ Len(fit'.body) < Len(fit.body)
        /\ fit'.shrinks = fit.shrinks + 1

\* A run that has not returned waits for an oracle, and every answer the
\* oracle may give, None included, is taken.
RunNeverStuck ==
    /\ fit.pc = "Initial" =>
          \A answer \in MaxContextAnswers : FitOnMaxContext(fit, answer) # {}
    /\ fit.pc = "Measuring" =>
          \A answer \in TokenCountAnswers : FitOnTokenCount(fit, answer) # {}
    /\ fit.pc \in {"Initial", "Measuring", "Fits", "Exhausted"}

\* C2: every fitting run ends in Fits or Exhausted after at most
\* ceil(body length / step) shrink steps, whatever the body, the step (>= 1)
\* and the budget, and whatever the oracles answer, failures included: a run
\* that has not returned takes every answer, each step that does not end it
\* makes the body shorter, and the steps are counted by the bound.
C2_FittingTerminates ==
    /\ []ShrinksBounded
    /\ []RunNeverStuck
    /\ [][ShrinkStepCutsBody]_vars

\* A run whose budget is below nothing and whose every oracle call failed
\* has ended Exhausted after more than one shrink step.
C2_Witness ==
    /\ fit.pc = "Exhausted"
    /\ fit.budget < 0
    /\ fit.shrinks >= 2
    /\ fit.failures = fit.shrinks + 2

AlternativeFree(ui_data) ==
    LET m == ui_data.metadata
        texts == {m.title, m.synopsis, m.setting, m.plot, ui_data.authors_note}
                     \cup {m.keywords[k] : k \in 1..Len(m.keywords)}
                     \cup {m.genres[k] : k \in 1..Len(m.genres)}
    IN  \A t \in texts : \A k \in 1..Len(t) : t[k] # "{"

SecondRunReturned == FitReturned(fit) /\ fit.run = 2

MainKinds == {"single", "infinite"}

\* A step in which the fitting run of a main generation task returns overflow.
OverflowReturnedTo(t) ==
    /\ tasks[t].kind \in MainKinds
    /\ tasks[t].pc = "fitting" /\ ~tasks[t].overflowed
    /\ tasks'[t].overflowed

\* After the step, a task that is in generate_stream streams the prompt of a
\* fitting run that has returned without overflow.
StreamsOnlyFittedPrompt ==
    \A t \in TaskIds :
        tasks'[t].pc = "streaming" =>
            /\ tasks'[t].fit.pc = "Fits"
            /\ ~tasks'[t].fit.overflow
            /\ tasks'[t].prompt = tasks'[t].fit.prompt

\* C4: whenever a fitting run returns overflow=true its caller (single
\* generation, infinite generation under either update behaviour,
\* autocomplete) calls generate_stream with no overflowed result, and the
\* main generation_status is "idle" once a main run has been told overflow.
C4_OverflowNeverGenerates ==
    [][/\ StreamsOnlyFittedPrompt
       /\ \A t \in TaskIds : OverflowReturnedTo(t) => generation_status' = "idle"]_vars

\* A step in which an abandoned autocomplete run ends its stream.
AbandonedRunEnds(t) ==
    /\ tasks[t].kind = "autocomplete" /\ tasks[t].pc = "streaming"
    /\ tasks[t].abandoned
    /\ TaskDone(tasks'[t])

\* C5: an autocomplete run that a newer run (debounce timeout, trigger_now)
\* has taken over from never applies its result: the step that ends its
\* stream puts no ghost text into the body.
C5_AbandonedRunNeverDisplays ==
    [][\A t \in TaskIds : AbandonedRunEnds(t) => UNCHANGED editorVars]_vars

\* What the caller of task's fitting run has read of the body.
TextRead(task) ==
    IF task.kind = "autocomplete"
    THEN Slice(task.read_text, 0, task.start_cursor_pos)
    ELSE task.read_text

\* The prompts that can be built from what task has read, at the body its
\* fitting run has got to.
PromptsOfRead(task) ==
    build_prompt(task.fit.current_mode, task.fit.body, task.read_details,
                 AppContPromptOrder, AppSettings)

\* The fitting run of task works on what its caller has read, and the
\* prompt the task streams is a prompt of that.
ReadOnce(task) ==
    /\ task.pc \in {"fitting", "streaming"} =>
          /\ task.fit.main_text \in evaluate_dynamic_prompt(TextRead(task))
          /\ task.fit.ui_data = task.read_details
          /\ IsSuffixOf(task.fit.body, task.fit.main_text)
          /\ task.fit.pc # "Initial" => task.fit.prompt \in PromptsOfRead(task)
    /\ task.pc = "streaming" => task.prompt \in PromptsOfRead(task)

\* C6: a fitting run works on the document state (body, metadata, author's
\* note, rating) its caller read before the first oracle call; whatever is
\* edited while the run is suspended, the prompt it produces and the prompt
\* that is streamed are prompts of the state that was read.
C6_DocumentReadOnce == \A t \in TaskIds : ReadOnce(tasks[t])

\* A task streams its prompt while the body and the details are no longer
\* what its caller read.
C6_Witness ==
    \E t \in TaskIds :
        /\ tasks[t].pc = "streaming"
        /\ tasks[t].fit.shrinks > 0
        /\ main_text_edit # tasks[t].read_text
        /\ details # tasks[t].read_details

\* ------------------------------------ claims about the oracle fallbacks

DisplayCounted == token_display.pc = "shown" /\ token_display.label = "counted"

\* C20: a failed max-context query gives the budget of the one fallback
\* context size (the one the fitter uses) minus the max output tokens, a
\* failed token-count query gives a quarter of the prompt's length, rounded
\* down, and the display shows a count, not an error.
C20_OneFallbackContextSize ==
    DisplayCounted =>
        /\ token_display.ctx_answer = Failure =>
              token_display.available_context =
                  AvailableBudget(Failure, token_display.max_output)
        /\ token_display.count_answer = Failure =>
              token_display.prompt_tokens = Len(token_display.prompt) \div 4

\* -------------------------------------- claims about the generation runs

\* C23: a single generation started from idle eventually returns
\* generation_status to idle, whether it completes, is cancelled, overflows,
\* is declined at the warning, or fails while the prompt is prepared.
C23_SingleRunReturnsToIdle ==
    (generation_status = "single_running") ~> (generation_status = "idle")

\* The single and infinite generation tasks that have not finished.
UnfinishedMainTasks ==
    {t \in TaskIds : tasks[t].kind \in {"single", "infinite"} /\ ~TaskDone(tasks[t])}

\* C24: the cleanup of a single generation that was stopped, run after the
\* user has started a new generation, resets neither generation_status nor
\* generation_task of the new run.
C24_StaleCleanupKeepsNewRun ==
    [][\A t \in TaskIds :
          (/\ CancelledErrorRaised(t)
           /\ tasks[t].kind = "single"
           /\ generation_task \notin {NoTask, t}
           /\ generation_task \in UnfinishedMainTasks)
             => (generation_status' = generation_status
                 /\ generation_task' = generation_task)]_vars

\* Some task hands a prompt to generate_stream.
SomeTaskStreams == \E t \in TaskIds : tasks[t].pc = "streaming"

\* C25: the infinite loop does not retry the preparation of its prompt for
\* ever: while generation_status is infinite_running, eventually a prompt
\* is prepared and streamed or generation_status returns to idle, under the
\* manual and under the immediate update behaviour.
C25_PreparationNotRetriedForever ==
    (generation_status = "infinite_running")
        ~> (generation_status = "idle" \/ SomeTaskStreams)

\* -------------------------------------- claims about the autocomplete manager

\* A step schedules a new autocomplete run.
AutocompleteRunStarts ==
    \E t \in TaskIds :
        /\ tasks'[t].kind = "autocomplete" /\ tasks'[t].pc = "created"
        /\ ~(tasks[t].kind = "autocomplete" /\ tasks[t].pc = "created")

\* C27: while the trigger mode is manual an autocomplete run starts only
\* through trigger_now; the debounce timer is never armed so that its
\* timeout starts one.
C27_ManualRunsOnlyByTriggerNow ==
    [][(trigger_mode = "manual" /\ AutocompleteRunStarts) => trigger_now]_vars

C29_AutocompleteExcludesInfinite ==
    ~(is_enabled /\ generation_status = "infinite_running")

\* -------------------------------------------- claims about the highlighter

\* C30: for every text and offset p < len(text), is_position_valid(text, p)
\* is false exactly when p lies in one of the highlighter's comment spans or
\* disabled spans.
C30_InvalidIffCommentOrDisabled ==
    (highlighter.pc = "cached" /\ eval_pc = "checked" /\ cursor_pos < Len(src_text))
        => (~position_valid <=>
               \/ InSpans(cursor_pos, highlighter.comment_spans)
               \/ InSpans(cursor_pos, highlighter.disabled_spans))

\* An offset outside the comments that is invalid because it lies before the
\* end of a start marker, in a text with a comment, and one comment span.
C30_Witness ==
    /\ highlighter.pc = "cached" /\ eval_pc = "checked"
    /\ cursor_pos < Len(src_text)
    /\ ~position_valid
    /\ highlighter.comment_spans # <<>>
    /\ ~InSpans(cursor_pos, highlighter.comment_spans)
    /\ InSpans(cursor_pos, highlighter.disabled_spans)

====
